---- MODULE Spec2Model ----
(***************************************************************************)
(* Turn engine of the Coup card game (game/gameEngine.ts, game/types.ts,   *)
(* game/characters.ts).  The engine is a pure reducer: every exported      *)
(* function takes a GameState and returns a new one.  Each function is an  *)
(* operator here that maps a state to the SET of states the call can       *)
(* return, one per outcome of shuffleArray; a call that throws returns the *)
(* empty set.  The court deck is kept as a multiset: every write to the    *)
(* deck in the engine is followed by a uniform shuffle or a single pop of  *)
(* an already shuffled deck, so the order carries no information.          *)
(* The log, names, isHuman, botDifficulty, faction and treasuryReserve are *)
(* never read by a transition and are left out.                            *)
(***************************************************************************)
EXTENDS Integers, Sequences, FiniteSets, TLC

VARIABLES state, lastOp, turnOps, firstTurn, directCalls, inFlight

vars == <<state, lastOp, turnOps, firstTurn, directCalls, inFlight>>

----------------------------------------------------------------------------
(* types.ts: program constants *)

STARTING_COINS == 2
COUP_COST == 7
ASSASSINATE_COST == 3
FORCED_COUP_THRESHOLD == 10

Character == {"Duke", "Assassin", "Captain", "Ambassador", "Contessa",
              "Inquisitor", "Jester", "Bureaucrat", "Speculator", "Socialist"}

ActionType == {"Income", "ForeignAid", "Coup", "Tax", "Assassinate", "Steal",
               "Exchange", "Examine", "InquisitorSelfExchange", "BureaucratTax",
               "SpeculatorTax", "SocialistRedistribute", "Convert", "Embezzle"}

GamePhase == {"AwaitingAction", "AwaitingChallengeOnAction", "AwaitingBlock",
              "AwaitingChallengeOnBlock", "ResolvingAction", "AwaitingCardSelection",
              "AwaitingExchangeSelection", "AwaitingExamineDecision",
              "AwaitingTargetSelection", "AwaitingInquisitorChoice",
              "AwaitingCoupRedirect", "AwaitingCoupRedirectChallenge", "GameOver"}

(* null and undefined of the TypeScript source *)
Null == "null"
Undefined == "undefined"

(* server/index.js: the placeholder the relay writes over a character *)
Hidden == "hidden"

(* what the character field of a card can hold *)
CardFace == Character \cup {Hidden}

----------------------------------------------------------------------------
(* Bounds of the exploration *)

(* a game of two players is explored for MaxTurn turns *)
MaxTurn == 2
(* a game of more players is explored for MaxTurnMany turns *)
MaxTurnMany == 1
(* declareCoupRedirect is not explored once the chain has MaxChain entries *)
MaxChain == 4
(* config.cardsPerCharacter of the explored games *)
CardsPerCharacter == 2
(* the most game_action messages on their way to the relay at one time *)
MaxInFlight == 2

(* config.playerIds: the roster is a prefix of this list *)
PlayerIds == <<"p1", "p2", "p3">>
(* an id that is in no roster *)
UnknownId == "ghost"
(* config.enabledCharacters of the explored games: one set with the      *)
(* redirect character, one with the Captain and the Socialist instead   *)
EnabledCharacters == {"Duke", "Assassin", "Contessa", "Inquisitor", "Jester"}
CaptainCharacters == {"Duke", "Assassin", "Contessa", "Captain", "Socialist"}
AmbassadorCharacters == {"Duke", "Ambassador", "Contessa"}
(* The explored games.  chars: config.enabledCharacters.                *)
(* deal: the hands createGame's shuffle gives the                       *)
(* players, in roster order.  rounds: the game is picked up after this  *)
(* many rounds in which every player took Income (balances 2, 7, 8, 10). *)
(* coup: the number of Coups paid in one more round: 1, the second       *)
(* player's Coup took the third player's first card and the others took  *)
(* Income; 2, the third player's Coup also took the first player's.      *)
Games ==
    {[chars |-> EnabledCharacters,
      deal |-> << <<"Duke", "Assassin">>, <<"Jester", "Contessa">> >>,
      rounds |-> r, coup |-> 0] : r \in {0, 5, 8}}
    \cup
    {[chars |-> EnabledCharacters,
      deal |-> << <<"Jester", "Jester">>, <<"Inquisitor", "Duke">> >>,
      rounds |-> r, coup |-> 0] : r \in {0, 5, 8}}
    \cup
    {[chars |-> EnabledCharacters,
      deal |-> << <<"Inquisitor", "Assassin">>, <<"Jester", "Contessa">>, <<"Duke", "Jester">> >>,
      rounds |-> r, coup |-> 0] : r \in {0, 5, 8}}
    \cup
    {[chars |-> CaptainCharacters,
      deal |-> << <<"Captain", "Socialist">>, <<"Duke", "Contessa">>, <<"Captain", "Assassin">> >>,
      rounds |-> 5, coup |-> c] : c \in {0, 1}}
    \cup
    {[chars |-> CaptainCharacters,
      deal |-> << <<"Socialist", "Assassin">>, <<"Duke", "Contessa">>, <<"Socialist", "Captain">> >>,
      rounds |-> 5, coup |-> 2]}
    \cup
    {[chars |-> CaptainCharacters,
      deal |-> << <<"Captain", "Duke">>, <<"Assassin", "Contessa">> >>,
      rounds |-> 6, coup |-> 0]}
    \cup
    {[chars |-> AmbassadorCharacters,
      deal |-> << <<"Ambassador", "Duke">>, <<"Contessa", "Duke">> >>,
      rounds |-> 0, coup |-> 0]}

----------------------------------------------------------------------------
(* characters.ts: the catalog *)

CharacterAction(c) ==
    CASE c = "Duke" -> "Tax"
      [] c = "Assassin" -> "Assassinate"
      [] c = "Captain" -> "Steal"
      [] c = "Ambassador" -> "Exchange"
      [] c = "Inquisitor" -> "Examine"
      [] c = "Bureaucrat" -> "BureaucratTax"
      [] c = "Speculator" -> "SpeculatorTax"
      [] c = "Socialist" -> "SocialistRedistribute"
      [] OTHER -> Undefined

CharacterActionCost(c) == IF c = "Assassin" THEN 3 ELSE 0

CharacterRequiresTarget(c) == c \in {"Assassin", "Captain", "Bureaucrat"}

BlocksActions(c) ==
    CASE c \in {"Duke", "Bureaucrat", "Speculator"} -> {"ForeignAid"}
      [] c \in {"Captain", "Ambassador", "Socialist"} -> {"Steal"}
      [] c = "Contessa" -> {"Assassinate"}
      [] OTHER -> {}

GeneralActions == {"Income", "ForeignAid", "Coup"}

getCharactersThatBlock(actionType, enabledCharacters) ==
    {c \in enabledCharacters : actionType \in BlocksActions(c)}

(* variant: no action opens a challenge window *)
isActionChallengeable_Never(actionType) == FALSE

isActionChallengeable(actionType) ==
    IF actionType \in GeneralActions THEN FALSE ELSE TRUE

isActionBlockable(actionType, enabledCharacters) ==
    IF actionType \in GeneralActions
    THEN actionType = "ForeignAid"
    ELSE getCharactersThatBlock(actionType, enabledCharacters) # {}

(* the engine's own getActionCost (gameEngine.ts), not the catalog's *)
getActionCost(actionType) ==
    IF actionType = "Coup" THEN COUP_COST
    ELSE IF actionType = "Assassinate" THEN ASSASSINATE_COST
    ELSE 0

----------------------------------------------------------------------------
(* Values *)

(* examinedCard of a GameAction: the card's character and its 0-based index *)
NoCard == [character |-> Undefined, index |-> -1]

NoAction ==
    [type |-> Null, sourcePlayerId |-> Null, targetPlayerId |-> Undefined,
     claimedCharacter |-> Undefined, examinedCard |-> NoCard,
     redirectDeclined |-> FALSE]

GameAction(type, source, target, claimed) ==
    [type |-> type, sourcePlayerId |-> source, targetPlayerId |-> target,
     claimedCharacter |-> claimed, examinedCard |-> NoCard,
     redirectDeclined |-> FALSE]

NoBlock == [blockingPlayerId |-> Null, claimedCharacter |-> Undefined]

Card(c) == [character |-> c, isRevealed |-> FALSE]

EmptyDeck == [c \in CardFace |-> 0]

DeckAdd(deck, c) == [deck EXCEPT ![c] = @ + 1]

DeckRemove(deck, c) == [deck EXCEPT ![c] = @ - 1]

DeckSize(deck) ==
    LET RECURSIVE Sum(_)
        Sum(S) == IF S = {} THEN 0
                  ELSE LET c == CHOOSE x \in S : TRUE IN deck[c] + Sum(S \ {c})
    IN Sum(CardFace)

(* the cards shuffleArray(deck).pop() can return *)
Drawable(deck) == {c \in CardFace : deck[c] > 0}

Range(seq) == {seq[i] : i \in 1..Len(seq)}

(* array.filter *)
Filter(seq, keep(_)) == SelectSeq(seq, keep)

----------------------------------------------------------------------------
(* gameEngine.ts: helpers *)

(* position of the player with this id in state.players, 0 if absent *)
IndexOfPlayer(s, id) ==
    IF \E i \in 1..Len(s.players) : s.players[i].id = id
    THEN CHOOSE i \in 1..Len(s.players) : s.players[i].id = id
    ELSE 0

(* getPlayerById throws for an id that is not in the roster *)
HasPlayer(s, id) == IndexOfPlayer(s, id) # 0

getPlayerById(s, id) == s.players[IndexOfPlayer(s, id)]

getAliveInfluence(player) ==
    Filter(player.influenceCards, LAMBDA c : ~c.isRevealed)

AliveCount(player) == Len(getAliveInfluence(player))

getAlivePlayers(s) == Filter(s.players, LAMBDA p : ~p.isEliminated)

(* influenceCards.findIndex(c => !c.isRevealed), 0-based, -1 if none *)
FirstUnrevealed(player) ==
    IF \E i \in 1..Len(player.influenceCards) : ~player.influenceCards[i].isRevealed
    THEN (CHOOSE i \in 1..Len(player.influenceCards) :
            /\ ~player.influenceCards[i].isRevealed
            /\ \A j \in 1..(i - 1) : player.influenceCards[j].isRevealed) - 1
    ELSE -1

(* influenceCards.findIndex(c => c.character === ch && !c.isRevealed) *)
FirstUnrevealedOf(player, ch) ==
    LET hit(i) == /\ player.influenceCards[i].character = ch
                  /\ ~player.influenceCards[i].isRevealed
    IN IF \E i \in 1..Len(player.influenceCards) : hit(i)
       THEN (CHOOSE i \in 1..Len(player.influenceCards) :
               hit(i) /\ \A j \in 1..(i - 1) : ~hit(j)) - 1
       ELSE -1

(* state.players.map(p => p.id === id ? f(p) : p) *)
MapPlayer(s, id, f(_)) ==
    [s EXCEPT !.players =
        [i \in 1..Len(s.players) |->
            IF s.players[i].id = id THEN f(s.players[i]) ELSE s.players[i]]]

AddCoins(s, id, n) == MapPlayer(s, id, LAMBDA p : [p EXCEPT !.coins = @ + n])

(* variant: the index is not moved *)
nextAlivePlayerIndex_Stay(s) == s.currentPlayerIndex

(* the while loop ends because the engine only advances with a player alive *)
nextAlivePlayerIndex(s) ==
    LET n == Len(s.players)
        RECURSIVE Walk(_, _)
        Walk(idx, fuel) ==
            IF fuel = 0 \/ ~s.players[idx + 1].isEliminated THEN idx
            ELSE Walk((idx + 1) % n, fuel - 1)
    IN Walk((s.currentPlayerIndex + 1) % n, n)

advanceTurn(s) ==
    IF s.phase = "GameOver" THEN s
    ELSE [s EXCEPT !.currentPlayerIndex = nextAlivePlayerIndex(s),
                   !.phase = "AwaitingAction",
                   !.pendingAction = NoAction,
                   !.pendingBlock = NoBlock,
                   !.respondedPlayerIds = <<>>,
                   !.drawnCards = <<>>,
                   !.turnNumber = @ + 1,
                   !.coupRedirectChain = <<>>,
                   !.coupRedirectSourceId = Null,
                   !.cardSelectionReason = Undefined]

(* variant: the phase is set and the winner is left out *)
checkGameOver_NoWinner(s) ==
    IF Len(getAlivePlayers(s)) = 1 THEN [s EXCEPT !.phase = "GameOver"] ELSE s

checkGameOver(s) ==
    LET alive == getAlivePlayers(s)
    IN IF Len(alive) = 1
       THEN [s EXCEPT !.phase = "GameOver", !.winnerId = alive[1].id]
       ELSE s

(* variant: the flag is never set *)
checkPlayerElimination_NoFlag(s, playerId) == s

checkPlayerElimination(s, playerId) ==
    LET player == getPlayerById(s, playerId)
    IN IF AliveCount(player) = 0 /\ ~player.isEliminated
       THEN checkGameOver(MapPlayer(s, playerId, LAMBDA p : [p EXCEPT !.isEliminated = TRUE]))
       ELSE s

(* variant: a revealed card passes *)
CanLoseInfluence_Revealed(s, playerId, cardIndex) ==
    /\ HasPlayer(s, playerId)
    /\ cardIndex + 1 \in 1..Len(getPlayerById(s, playerId).influenceCards)

(* loseInfluence throws when the player is unknown or the card is missing *)
(* or already revealed; cardIndex is 0-based as in the source              *)
CanLoseInfluence(s, playerId, cardIndex) ==
    /\ HasPlayer(s, playerId)
    /\ cardIndex + 1 \in 1..Len(getPlayerById(s, playerId).influenceCards)
    /\ ~getPlayerById(s, playerId).influenceCards[cardIndex + 1].isRevealed

loseInfluence(s, playerId, cardIndex) ==
    checkPlayerElimination(
        MapPlayer(s, playerId,
            LAMBDA p : [p EXCEPT !.influenceCards[cardIndex + 1].isRevealed = TRUE]),
        playerId)

----------------------------------------------------------------------------
(* gameEngine.ts: card replacement and action resolution *)

SetCard(s, playerId, cardIdx, ch) ==
    MapPlayer(s, playerId,
        LAMBDA p : [p EXCEPT !.influenceCards[cardIdx + 1] = Card(ch)])

(* the card goes back, the deck is shuffled, the top card is drawn *)
(* variant: the shown card is not put back before the draw *)
replaceRevealedCard_NoReturn(s, playerId, character) ==
    LET player == getPlayerById(s, playerId)
        cardIdx == FirstUnrevealedOf(player, character)
    IN IF cardIdx = -1 THEN {s}
       ELSE {SetCard([s EXCEPT !.courtDeck = DeckRemove(s.courtDeck, newCard)],
                     playerId, cardIdx, newCard) : newCard \in Drawable(s.courtDeck)}

replaceRevealedCard(s, playerId, character) ==
    LET player == getPlayerById(s, playerId)
        cardIdx == FirstUnrevealedOf(player, character)
        newDeck == DeckAdd(s.courtDeck, character)
    IN IF cardIdx = -1 THEN {s}
       ELSE {SetCard([s EXCEPT !.courtDeck = DeckRemove(newDeck, newCard)],
                     playerId, cardIdx, newCard) : newCard \in Drawable(newDeck)}

(* the ways to pop n cards off a shuffled deck: <<cards drawn, deck left>> *)
RECURSIVE DrawSeqs(_, _)
DrawSeqs(deck, n) ==
    IF n = 0 \/ Drawable(deck) = {} THEN {<<(<<>>), deck>>}
    ELSE UNION {{<<(<<c>>) \o r[1], r[2]>> : r \in DrawSeqs(DeckRemove(deck, c), n - 1)} :
                c \in Drawable(deck)}

RECURSIVE DeckAddAll(_, _)
DeckAddAll(deck, chars) ==
    IF chars = <<>> THEN deck ELSE DeckAddAll(DeckAdd(deck, Head(chars)), Tail(chars))

Characters(cards) == [i \in 1..Len(cards) |-> cards[i].character]

Cards(chars) == [i \in 1..Len(chars) |-> Card(chars[i])]

Min(a, b) == IF a < b THEN a ELSE b

(* the forced loss shared by Coup and Assassinate: one card left is lost at *)
(* once, otherwise the target is asked to choose                           *)
(* variant: the loss of one of two cards is staged in ResolvingAction *)
ForceLoss_Staged(s, targetId) ==
    LET target == getPlayerById(s, targetId)
    IN IF AliveCount(target) = 1
       THEN advanceTurn(loseInfluence(s, targetId, FirstUnrevealed(target)))
       ELSE [s EXCEPT !.phase = "ResolvingAction",
                      !.respondedPlayerIds = <<targetId>>,
                      !.cardSelectionReason = "action-effect"]

ForceLoss(s, targetId) ==
    LET target == getPlayerById(s, targetId)
    IN IF AliveCount(target) = 1
       THEN advanceTurn(loseInfluence(s, targetId, FirstUnrevealed(target)))
       ELSE [s EXCEPT !.phase = "AwaitingCardSelection",
                      !.respondedPlayerIds = <<targetId>>,
                      !.cardSelectionReason = "action-effect"]

resolveCoup(s) ==
    LET action == s.pendingAction
        coupTarget == getPlayerById(s, action.targetPlayerId)
    IN IF action.targetPlayerId = Undefined \/ ~HasPlayer(s, action.targetPlayerId) THEN {}
       ELSE IF /\ ~action.redirectDeclined
               /\ ~coupTarget.isEliminated
               /\ "Jester" \in s.config.enabledCharacters
       THEN {[s EXCEPT !.phase = "AwaitingCoupRedirect",
                       !.coupRedirectChain = <<action.targetPlayerId>>,
                       !.coupRedirectSourceId = action.sourcePlayerId]}
       ELSE {ForceLoss(s, action.targetPlayerId)}

resolveAssassinate(s) ==
    LET action == s.pendingAction
        target == getPlayerById(s, action.targetPlayerId)
    IN IF action.targetPlayerId = Undefined \/ ~HasPlayer(s, action.targetPlayerId) THEN {}
       ELSE IF AliveCount(target) = 0 THEN {advanceTurn(s)}
       ELSE {ForceLoss(s, action.targetPlayerId)}

resolveSteal(s) ==
    LET action == s.pendingAction
        target == getPlayerById(s, action.targetPlayerId)
        stolen == Min(2, target.coins)
    IN IF action.targetPlayerId = Undefined \/ ~HasPlayer(s, action.targetPlayerId) THEN {}
       ELSE {advanceTurn([s EXCEPT !.players =
                [i \in 1..Len(s.players) |->
                    IF s.players[i].id = action.sourcePlayerId
                    THEN [s.players[i] EXCEPT !.coins = @ + stolen]
                    ELSE IF s.players[i].id = action.targetPlayerId
                    THEN [s.players[i] EXCEPT !.coins = @ - stolen]
                    ELSE s.players[i]]])}

resolveBureaucratTax(s) ==
    LET action == s.pendingAction
    IN IF action.targetPlayerId = Undefined \/ ~HasPlayer(s, action.targetPlayerId) THEN {}
       ELSE {advanceTurn([s EXCEPT !.players =
                [i \in 1..Len(s.players) |->
                    IF s.players[i].id = action.sourcePlayerId
                    THEN [s.players[i] EXCEPT !.coins = @ + 2]
                    ELSE IF s.players[i].id = action.targetPlayerId
                    THEN [s.players[i] EXCEPT !.coins = @ + 1]
                    ELSE s.players[i]]])}

(* Ambassador: all unrevealed cards go back, the same number is drawn *)
resolveExchange(s) ==
    LET actor == getPlayerById(s, s.pendingAction.sourcePlayerId)
        aliveCards == getAliveInfluence(actor)
        newDeck == DeckAddAll(s.courtDeck, Characters(aliveCards))
        revealed == Filter(actor.influenceCards, LAMBDA c : c.isRevealed)
    IN {advanceTurn(MapPlayer([s EXCEPT !.courtDeck = r[2]], actor.id,
            LAMBDA p : [p EXCEPT !.influenceCards = Cards(r[1]) \o revealed])) :
        r \in DrawSeqs(newDeck, Len(aliveCards))}

resolveInquisitorSelfExchange(s) ==
    IF Drawable(s.courtDeck) = {}
    THEN {[s EXCEPT !.drawnCards = <<>>, !.phase = "AwaitingExchangeSelection"]}
    ELSE {[s EXCEPT !.courtDeck = DeckRemove(s.courtDeck, c),
                    !.drawnCards = <<c>>,
                    !.phase = "AwaitingExchangeSelection"] : c \in Drawable(s.courtDeck)}

(* every other alive player gives min(1, coins); the actor keeps min(1, total) *)
resolveSocialistRedistribute(s) ==
    LET actorId == s.pendingAction.sourcePlayerId
        gives(p) == p.id # actorId /\ ~p.isEliminated
        take(p) == IF gives(p) THEN Min(1, p.coins) ELSE 0
        RECURSIVE Total(_)
        Total(i) == IF i = 0 THEN 0 ELSE take(s.players[i]) + Total(i - 1)
        totalCollected == Total(Len(s.players))
        kept == Min(1, totalCollected)
    IN {advanceTurn([s EXCEPT !.players =
            [i \in 1..Len(s.players) |->
                IF s.players[i].id = actorId
                THEN [s.players[i] EXCEPT !.coins = @ + kept]
                ELSE [s.players[i] EXCEPT !.coins = @ - take(s.players[i])]]])}

resolveAction(s) ==
    LET action == s.pendingAction
    IN IF action.type = Null \/ ~HasPlayer(s, action.sourcePlayerId) THEN {}
       ELSE CASE action.type = "Income" -> {advanceTurn(AddCoins(s, action.sourcePlayerId, 1))}
              [] action.type = "ForeignAid" -> {advanceTurn(AddCoins(s, action.sourcePlayerId, 2))}
              [] action.type = "Coup" -> resolveCoup(s)
              [] action.type \in {"Tax", "SpeculatorTax"} ->
                    {advanceTurn(AddCoins(s, action.sourcePlayerId, 3))}
              [] action.type = "BureaucratTax" -> resolveBureaucratTax(s)
              [] action.type = "Assassinate" -> resolveAssassinate(s)
              [] action.type = "Steal" -> resolveSteal(s)
              [] action.type = "Exchange" -> resolveExchange(s)
              [] action.type = "Examine" -> {[s EXCEPT !.phase = "AwaitingInquisitorChoice"]}
              [] action.type = "InquisitorSelfExchange" -> resolveInquisitorSelfExchange(s)
              [] action.type = "SocialistRedistribute" -> resolveSocialistRedistribute(s)
              [] OTHER -> {advanceTurn(s)}

(* the outcomes of f over every state of a set *)
Bind(S, f(_)) == UNION {f(x) : x \in S}

----------------------------------------------------------------------------
(* gameEngine.ts: declaring, challenging, blocking *)

(* a JavaScript value that an `if (x)` takes as present *)
Truthy(x) == x # Undefined /\ x # Null

declareAction(s, action) ==
    LET actionCost == getActionCost(action.type)
        newState == IF actionCost > 0
                    THEN AddCoins(s, action.sourcePlayerId, 0 - actionCost)
                    ELSE s
    IN IF ~HasPlayer(s, action.sourcePlayerId) THEN {}
       ELSE IF Truthy(action.targetPlayerId) /\ ~HasPlayer(s, action.targetPlayerId) THEN {}
       ELSE IF isActionChallengeable(action.type)
       THEN {[newState EXCEPT !.phase = "AwaitingChallengeOnAction",
                              !.pendingAction = action,
                              !.respondedPlayerIds = <<>>]}
       ELSE IF isActionBlockable(action.type, s.config.enabledCharacters)
       THEN {[newState EXCEPT !.phase = "AwaitingBlock",
                              !.pendingAction = action,
                              !.respondedPlayerIds = <<>>]}
       ELSE resolveAction([newState EXCEPT !.pendingAction = action])

(* variant: the action resolves at once, blockable or not *)
AfterChallengerAutoLoss_NoBlock(s, actionType) ==
    IF s.phase = "GameOver" THEN {s} ELSE resolveAction(s)

(* what follows a failed challenge once the challenger's only card is gone *)
AfterChallengerAutoLoss(s, actionType) ==
    IF s.phase = "GameOver" THEN {s}
    ELSE IF actionType = "Assassinate" THEN resolveAction(s)
    ELSE IF isActionBlockable(actionType, s.config.enabledCharacters)
    THEN {[s EXCEPT !.phase = "AwaitingBlock", !.respondedPlayerIds = <<>>]}
    ELSE resolveAction(s)

(* the refund of the action cost to a caught bluffer is commented out *)
(* variant: the refund block enabled *)
RefundActionCost_Enabled(s, actorId, actionType) ==
    AddCoins(s, actorId, getActionCost(actionType))

RefundActionCost(s, actorId, actionType) == s

challengeAction(s, challengerId) ==
    LET actorId == s.pendingAction.sourcePlayerId
        actor == getPlayerById(s, actorId)
        claimedChar == s.pendingAction.claimedCharacter
        hasCharacter == \E i \in 1..Len(actor.influenceCards) :
                            /\ ~actor.influenceCards[i].isRevealed
                            /\ actor.influenceCards[i].character = claimedChar
        ChallengeFails(ns) ==
            LET challenger == getPlayerById(ns, challengerId)
            IN IF AliveCount(challenger) = 1
               THEN AfterChallengerAutoLoss(
                        loseInfluence(ns, challengerId, FirstUnrevealed(challenger)),
                        s.pendingAction.type)
               ELSE {[ns EXCEPT !.phase = "AwaitingCardSelection",
                                !.respondedPlayerIds = <<challengerId>>]}
        penalised == RefundActionCost(
                        [s EXCEPT !.cardSelectionReason = "challenge-penalty"],
                        actorId, s.pendingAction.type)
    IN IF s.pendingAction.type = Null THEN {}
       ELSE IF ~HasPlayer(s, challengerId) \/ ~HasPlayer(s, actorId) THEN {}
       ELSE IF ~Truthy(claimedChar) THEN {}
       ELSE IF hasCharacter
       THEN Bind(replaceRevealedCard(s, actorId, claimedChar), ChallengeFails)
       ELSE IF AliveCount(actor) = 1
       THEN {advanceTurn(loseInfluence(penalised, actorId, FirstUnrevealed(actor)))}
       ELSE {[penalised EXCEPT !.phase = "AwaitingCardSelection",
                               !.respondedPlayerIds = <<actorId>>]}

(* the alive players other than the pending action's source *)
AliveExcept(s, id) == Filter(getAlivePlayers(s), LAMBDA p : p.id # id)

(* responded.length >= alive.length *)
AllResponded(responded, alive) == Len(responded) >= Len(alive)

passChallenge(s, playerId) ==
    LET responded == Append(s.respondedPlayerIds, playerId)
        alive == AliveExcept(s, s.pendingAction.sourcePlayerId)
    IN IF AllResponded(responded, alive) /\ s.phase = "AwaitingChallengeOnAction"
       THEN IF s.pendingAction.type = Null THEN {}
            ELSE IF isActionBlockable(s.pendingAction.type, s.config.enabledCharacters)
            THEN {[s EXCEPT !.phase = "AwaitingBlock", !.respondedPlayerIds = <<>>]}
            ELSE resolveAction(s)
       ELSE IF AllResponded(responded, alive) /\ s.phase = "AwaitingChallengeOnBlock"
       THEN {advanceTurn(s)}
       ELSE {[s EXCEPT !.respondedPlayerIds = responded]}

(* pendingBlock.blockedAction is a copy of pendingAction, which no step *)
(* changes while the block is pending; it is not stored a second time    *)
declareBlock(s, blockerId, claimedCharacter) ==
    IF s.pendingAction.type = Null THEN {}
    ELSE IF ~HasPlayer(s, blockerId) THEN {}
    ELSE {[s EXCEPT !.phase = "AwaitingChallengeOnBlock",
                    !.pendingBlock = [blockingPlayerId |-> blockerId,
                                      claimedCharacter |-> claimedCharacter],
                    !.respondedPlayerIds = <<>>]}

passBlock(s, playerId) ==
    LET responded == Append(s.respondedPlayerIds, playerId)
        alive == AliveExcept(s, s.pendingAction.sourcePlayerId)
    IN IF AllResponded(responded, alive)
       THEN resolveAction(s)
       ELSE {[s EXCEPT !.respondedPlayerIds = responded]}

challengeBlock(s, challengerId) ==
    LET blockerId == s.pendingBlock.blockingPlayerId
        blocker == getPlayerById(s, blockerId)
        claimedChar == s.pendingBlock.claimedCharacter
        hasChar == \E i \in 1..Len(blocker.influenceCards) :
                       /\ ~blocker.influenceCards[i].isRevealed
                       /\ blocker.influenceCards[i].character = claimedChar
        BlockStands(ns) ==
            LET challenger == getPlayerById(ns, challengerId)
            IN IF AliveCount(challenger) = 1
               THEN {advanceTurn(loseInfluence(ns, challengerId, FirstUnrevealed(challenger)))}
               ELSE {[ns EXCEPT !.phase = "AwaitingCardSelection",
                                !.respondedPlayerIds = <<challengerId>>]}
        penalised == [s EXCEPT !.cardSelectionReason = "challenge-penalty"]
        lost == loseInfluence(penalised, blockerId, FirstUnrevealed(blocker))
    IN IF s.pendingBlock.blockingPlayerId = Null THEN {}
       ELSE IF ~HasPlayer(s, challengerId) \/ ~HasPlayer(s, blockerId) THEN {}
       ELSE IF hasChar
       THEN Bind(replaceRevealedCard(s, blockerId, claimedChar), BlockStands)
       ELSE IF AliveCount(blocker) = 1
       THEN IF lost.phase = "GameOver" THEN {lost} ELSE resolveAction(lost)
       ELSE {[penalised EXCEPT !.phase = "AwaitingCardSelection",
                               !.respondedPlayerIds = <<blockerId>>]}

----------------------------------------------------------------------------
(* gameEngine.ts: the Coup redirect (Jester) *)

(* variant: the chain and the remembered source are left in place *)
ClearChain_Keep(s) == s

ClearChain(s) == [s EXCEPT !.coupRedirectChain = <<>>, !.coupRedirectSourceId = Null]

(* chain[chain.length - 2], undefined when the chain is shorter *)
RedirectorOf(chain) == IF Len(chain) >= 2 THEN chain[Len(chain) - 1] ELSE Undefined

(* chain[chain.length - 1] *)
TailOf(chain) == IF Len(chain) >= 1 THEN chain[Len(chain)] ELSE Undefined

(* chain.slice(0, chain.length - 1).filter(id => id === redirectorId).length *)
redirectorOccurrences(chain) ==
    Cardinality({i \in 1..(Len(chain) - 1) : chain[i] = RedirectorOf(chain)})

jesterCount(player) ==
    Cardinality({i \in 1..Len(player.influenceCards) :
                    /\ ~player.influenceCards[i].isRevealed
                    /\ player.influenceCards[i].character = "Jester"})

(* variant: the redirector becomes the source of the pending Coup *)
declareCoupRedirect_Resourced(s, redirectorId, newTargetId) ==
    IF ~HasPlayer(s, redirectorId) \/ ~HasPlayer(s, newTargetId) THEN {}
    ELSE {[s EXCEPT !.phase = "AwaitingCoupRedirectChallenge",
                    !.pendingAction = GameAction("Coup", redirectorId, newTargetId, "Jester"),
                    !.respondedPlayerIds = <<>>,
                    !.coupRedirectChain = Append(@, newTargetId)]}

declareCoupRedirect(s, redirectorId, newTargetId) ==
    LET matchSource == IF Truthy(s.coupRedirectSourceId) THEN s.coupRedirectSourceId
                       ELSE IF Truthy(s.pendingAction.sourcePlayerId)
                       THEN s.pendingAction.sourcePlayerId
                       ELSE ""
    IN IF ~HasPlayer(s, redirectorId) \/ ~HasPlayer(s, newTargetId) THEN {}
       ELSE {[s EXCEPT !.phase = "AwaitingCoupRedirectChallenge",
                       !.pendingAction = GameAction("Coup", matchSource, newTargetId, "Jester"),
                       !.respondedPlayerIds = <<>>,
                       !.coupRedirectChain = Append(@, newTargetId)]}

passCoupRedirect(s, playerId) ==
    LET player == getPlayerById(s, playerId)
        declined == IF s.pendingAction.type = Null
                    THEN [NoAction EXCEPT !.type = Undefined,
                                          !.sourcePlayerId = Undefined,
                                          !.redirectDeclined = TRUE]
                    ELSE [s.pendingAction EXCEPT !.redirectDeclined = TRUE]
        newState == ClearChain([s EXCEPT !.pendingAction = declined])
    IN IF ~HasPlayer(s, playerId) THEN {}
       ELSE {ForceLoss(newState, playerId)}

(* the redirect stands: the chain's last entry is the Coup's target now *)
RedirectStands(s, responded) ==
    LET newTargetId == TailOf(s.coupRedirectChain)
        newTarget == getPlayerById(s, newTargetId)
    IN IF ~HasPlayer(s, newTargetId) THEN {}
       ELSE IF newTarget.isEliminated THEN {advanceTurn(ClearChain(s))}
       ELSE IF "Jester" \in s.config.enabledCharacters
       THEN {[s EXCEPT !.phase = "AwaitingCoupRedirect", !.respondedPlayerIds = responded]}
       ELSE IF AliveCount(newTarget) = 1
       THEN {advanceTurn(loseInfluence(ClearChain(s), newTargetId, FirstUnrevealed(newTarget)))}
       ELSE {[ClearChain(s) EXCEPT !.phase = "AwaitingCardSelection",
                                   !.respondedPlayerIds = <<newTargetId>>]}

(* for (i < k) newState = replaceRevealedCard(newState, redirector, Jester) *)
RECURSIVE ReplaceJesters(_, _, _)
ReplaceJesters(S, redirectorId, k) ==
    IF k = 0 THEN S
    ELSE ReplaceJesters(Bind(S, LAMBDA x : replaceRevealedCard(x, redirectorId, "Jester")),
                        redirectorId, k - 1)

(* the card indexes the replace loop visits, one sequence for each way   *)
(* the draws can fall: every pass takes the first unrevealed Jester of   *)
(* the hand the pass before left                                         *)
RECURSIVE ReplacedSlots(_, _, _)
ReplacedSlots(s, redirectorId, k) ==
    LET cardIdx == FirstUnrevealedOf(getPlayerById(s, redirectorId), "Jester")
    IN IF k = 0 THEN {<<>>}
       ELSE IF cardIdx = -1 THEN ReplacedSlots(s, redirectorId, k - 1)
       ELSE UNION {{<<cardIdx>> \o r : r \in ReplacedSlots(t, redirectorId, k - 1)} :
                   t \in replaceRevealedCard(s, redirectorId, "Jester")}

(* for (card of aliveCards) lose the first unrevealed card, stop at GameOver *)
RECURSIVE LoseAll(_, _, _)
LoseAll(s, playerId, n) ==
    IF n = 0 THEN advanceTurn(ClearChain(s))
    ELSE LET idx == FirstUnrevealed(getPlayerById(s, playerId))
             ns == IF idx # -1 THEN loseInfluence(s, playerId, idx) ELSE s
         IN IF ns.phase = "GameOver" THEN ns ELSE LoseAll(ns, playerId, n - 1)

(* variant: the caught redirector gives up one card only *)
DoubleLoss_Single(s, redirectorId) == LoseAll(s, redirectorId, 1)

(* "Challenge succeeds - redirector loses BOTH cards (double loss)" *)
DoubleLoss(s, redirectorId) ==
    LoseAll(s, redirectorId, AliveCount(getPlayerById(s, redirectorId)))

(* variant: the failed challenger is not recorded as the player to select *)
challengeCoupRedirect_Unnamed(s, challengerId) ==
    LET chain == s.coupRedirectChain
        redirectorId == RedirectorOf(chain)
        redirector == getPlayerById(s, redirectorId)
        hasEnoughJesters == jesterCount(redirector) >= redirectorOccurrences(chain)
        ChallengeFails(ns) ==
            LET challenger == getPlayerById(ns, challengerId)
                lost == loseInfluence(ns, challengerId, FirstUnrevealed(challenger))
            IN IF AliveCount(challenger) = 1
               THEN IF lost.phase = "GameOver" THEN {lost}
                    ELSE RedirectStands(lost, lost.respondedPlayerIds)
               ELSE {[ns EXCEPT !.phase = "AwaitingCardSelection",
                                !.cardSelectionReason = "challenge-penalty"]}
    IN IF ~HasPlayer(s, redirectorId) \/ ~HasPlayer(s, challengerId) THEN {}
       ELSE IF hasEnoughJesters
       THEN Bind(ReplaceJesters({s}, redirectorId, redirectorOccurrences(chain)),
                 ChallengeFails)
       ELSE {DoubleLoss(s, redirectorId)}

challengeCoupRedirect(s, challengerId) ==
    LET chain == s.coupRedirectChain
        redirectorId == RedirectorOf(chain)
        redirector == getPlayerById(s, redirectorId)
        hasEnoughJesters == jesterCount(redirector) >= redirectorOccurrences(chain)
        ChallengeFails(ns) ==
            LET challenger == getPlayerById(ns, challengerId)
                lost == loseInfluence(ns, challengerId, FirstUnrevealed(challenger))
            IN IF AliveCount(challenger) = 1
               THEN IF lost.phase = "GameOver" THEN {lost}
                    ELSE RedirectStands(lost, lost.respondedPlayerIds)
               ELSE {[ns EXCEPT !.phase = "AwaitingCardSelection",
                                !.respondedPlayerIds = <<challengerId>>,
                                !.cardSelectionReason = "challenge-penalty"]}
    IN IF ~HasPlayer(s, redirectorId) \/ ~HasPlayer(s, challengerId) THEN {}
       ELSE IF hasEnoughJesters
       THEN Bind(ReplaceJesters({s}, redirectorId, redirectorOccurrences(chain)),
                 ChallengeFails)
       ELSE {DoubleLoss(s, redirectorId)}

passCoupRedirectChallenge(s, playerId) ==
    LET responded == Append(s.respondedPlayerIds, playerId)
        alive == AliveExcept(s, RedirectorOf(s.coupRedirectChain))
    IN IF AllResponded(responded, alive)
       THEN RedirectStands(s, <<>>)
       ELSE {[s EXCEPT !.respondedPlayerIds = responded]}

----------------------------------------------------------------------------
(* gameEngine.ts: selections *)

resolveInquisitorChoice(s, choice, targetPlayerId) ==
    LET target == getPlayerById(s, targetPlayerId)
        aliveIdx == {i \in 1..Len(target.influenceCards) : ~target.influenceCards[i].isRevealed}
    IN IF s.pendingAction.type = Null \/ ~HasPlayer(s, s.pendingAction.sourcePlayerId) THEN {}
       ELSE IF choice = "self-exchange"
       THEN resolveAction([s EXCEPT !.pendingAction.type = "InquisitorSelfExchange"])
       ELSE IF ~Truthy(targetPlayerId) \/ ~HasPlayer(s, targetPlayerId) THEN {}
       ELSE {[s EXCEPT !.phase = "AwaitingExamineDecision",
                       !.pendingAction.type = "Examine",
                       !.pendingAction.targetPlayerId = targetPlayerId,
                       !.pendingAction.examinedCard =
                            [character |-> target.influenceCards[i].character,
                             index |-> i - 1]] : i \in aliveIdx}

(* variant: the Assassinate case of the routing left out *)
selectCardToLose_BlockFirst(s, playerId, cardIndex) ==
    LET newState == loseInfluence(s, playerId, cardIndex)
        done == advanceTurn([newState EXCEPT !.cardSelectionReason = Undefined])
    IN IF ~CanLoseInfluence(s, playerId, cardIndex) THEN {}
       ELSE IF newState.phase = "GameOver" THEN {newState}
       ELSE IF s.phase = "AwaitingCardSelection" /\ s.pendingAction.type # Null
       THEN IF playerId # s.pendingAction.sourcePlayerId
            THEN IF s.pendingAction.type = "Coup" THEN {done}
                 ELSE IF s.cardSelectionReason = "action-effect" THEN {done}
                 ELSE IF isActionBlockable(s.pendingAction.type, s.config.enabledCharacters)
                 THEN {[newState EXCEPT !.phase = "AwaitingBlock",
                                        !.respondedPlayerIds = <<>>]}
                 ELSE resolveAction(newState)
            ELSE {done}
       ELSE {done}

selectCardToLose(s, playerId, cardIndex) ==
    LET newState == loseInfluence(s, playerId, cardIndex)
        done == advanceTurn([newState EXCEPT !.cardSelectionReason = Undefined])
    IN IF ~CanLoseInfluence(s, playerId, cardIndex) THEN {}
       ELSE IF newState.phase = "GameOver" THEN {newState}
       ELSE IF s.phase = "AwaitingCardSelection" /\ s.pendingAction.type # Null
       THEN IF playerId # s.pendingAction.sourcePlayerId
            THEN IF s.pendingAction.type = "Assassinate" THEN resolveAction(newState)
                 ELSE IF s.pendingAction.type = "Coup" THEN {done}
                 ELSE IF s.cardSelectionReason = "action-effect" THEN {done}
                 ELSE IF isActionBlockable(s.pendingAction.type, s.config.enabledCharacters)
                 THEN {[newState EXCEPT !.phase = "AwaitingBlock",
                                        !.respondedPlayerIds = <<>>]}
                 ELSE resolveAction(newState)
            ELSE {done}
       ELSE {done}

(* variant: the revealed cards are not carried over *)
completeExchange_DropRevealed(s, playerId, keptCards, returnedCards) ==
    LET player == getPlayerById(s, playerId)
        newState == MapPlayer(
            [s EXCEPT !.courtDeck = DeckAddAll(@, returnedCards), !.drawnCards = <<>>],
            playerId, LAMBDA p : [p EXCEPT !.influenceCards = Cards(keptCards)])
    IN IF ~HasPlayer(s, playerId) THEN {}
       ELSE IF Len(keptCards) # AliveCount(player) THEN {}
       ELSE {advanceTurn(newState)}

completeExchange(s, playerId, keptCards, returnedCards) ==
    LET player == getPlayerById(s, playerId)
        revealed == Filter(player.influenceCards, LAMBDA c : c.isRevealed)
        newState == MapPlayer(
            [s EXCEPT !.courtDeck = DeckAddAll(@, returnedCards), !.drawnCards = <<>>],
            playerId, LAMBDA p : [p EXCEPT !.influenceCards = Cards(keptCards) \o revealed])
    IN IF ~HasPlayer(s, playerId) THEN {}
       ELSE IF Len(keptCards) # AliveCount(player) THEN {}
       ELSE {advanceTurn(newState)}

resolveExamine(s, forceExchange, targetCardIndex) ==
    LET targetId == s.pendingAction.targetPlayerId
        target == getPlayerById(s, targetId)
        card == target.influenceCards[targetCardIndex + 1]
        newDeck == DeckAdd(s.courtDeck, card.character)
    IN IF ~Truthy(targetId) \/ ~HasPlayer(s, targetId) THEN {}
       ELSE IF targetCardIndex + 1 \notin 1..Len(target.influenceCards) THEN {}
       ELSE IF card.isRevealed THEN {}
       ELSE IF forceExchange
       THEN {advanceTurn(SetCard([s EXCEPT !.courtDeck = DeckRemove(newDeck, newCard)],
                                 targetId, targetCardIndex, newCard)) :
             newCard \in Drawable(newDeck)}
       ELSE {advanceTurn(s)}

----------------------------------------------------------------------------
(* gameEngine.ts: createGame and getAvailableActions *)

RECURSIVE Flatten(_)
Flatten(hands) == IF hands = <<>> THEN <<>> ELSE Head(hands) \o Flatten(Tail(hands))

FullDeck(config) ==
    [c \in CardFace |-> IF c \in config.enabledCharacters THEN config.cardsPerCharacter ELSE 0]

RECURSIVE DeckRemoveAll(_, _)
DeckRemoveAll(deck, chars) ==
    IF chars = <<>> THEN deck ELSE DeckRemoveAll(DeckRemove(deck, Head(chars)), Tail(chars))

(* deal: the two cards each player popped off the shuffled deck *)
createGame(config, deal) ==
    [config |-> config,
     players |-> [i \in 1..Len(deal) |->
                    [id |-> PlayerIds[i], coins |-> STARTING_COINS,
                     influenceCards |-> Cards(deal[i]), isEliminated |-> FALSE]],
     courtDeck |-> DeckRemoveAll(FullDeck(config), Flatten(deal)),
     currentPlayerIndex |-> 0,
     phase |-> "AwaitingAction",
     pendingAction |-> NoAction,
     pendingBlock |-> NoBlock,
     respondedPlayerIds |-> <<>>,
     drawnCards |-> <<>>,
     winnerId |-> Null,
     turnNumber |-> 1,
     coupRedirectChain |-> <<>>,
     coupRedirectSourceId |-> Null,
     cardSelectionReason |-> Undefined]

(* the state after r rounds in which each player declared Income in turn: *)
(* each such turn is declareAction -> resolveAction -> advanceTurn         *)
AfterIncomeRounds(s, r) ==
    [s EXCEPT !.players = [i \in 1..Len(s.players) |-> [s.players[i] EXCEPT !.coins = @ + r]],
              !.turnNumber = @ + r * Len(s.players)]

Config(chars) == [enabledCharacters |-> chars, cardsPerCharacter |-> CardsPerCharacter]

(* the only state a call returns *)
Only(S) == CHOOSE x \in S : TRUE

(* the state after one more round of three players: Income, a Coup of the *)
(* second player on the third, who gives up the first card, Income        *)
AfterCoupRound(s) ==
    LET ids == [i \in 1..3 |-> s.players[i].id]
        s1 == Only(declareAction(s, GameAction("Income", ids[1], Undefined, Undefined)))
        s2 == Only(declareAction(s1, GameAction("Coup", ids[2], ids[3], Undefined)))
        s3 == Only(selectCardToLose(s2, ids[3], 0))
    IN Only(declareAction(s3, GameAction("Income", ids[3], Undefined, Undefined)))

(* the state after a round of three players with two Coups: Income, a    *)
(* Coup of the second player on the third and one of the third on the    *)
(* first, each victim giving up the first card                           *)
AfterTwoCoups(s) ==
    LET ids == [i \in 1..3 |-> s.players[i].id]
        s1 == Only(declareAction(s, GameAction("Income", ids[1], Undefined, Undefined)))
        s2 == Only(declareAction(s1, GameAction("Coup", ids[2], ids[3], Undefined)))
        s3 == Only(selectCardToLose(s2, ids[3], 0))
        s4 == Only(declareAction(s3, GameAction("Coup", ids[3], ids[1], Undefined)))
    IN Only(selectCardToLose(s4, ids[1], 0))

(* the state an explored game is picked up in *)
PickedUp(g) ==
    LET s == AfterIncomeRounds(createGame(Config(g.chars), g.deal), g.rounds)
    IN CASE g.coup = 0 -> s
         [] g.coup = 1 -> AfterCoupRound(s)
         [] g.coup = 2 -> AfterTwoCoups(s)

(* config.enabledCharacters as the array the loop walks, in catalog order *)
CharacterOrder ==
    <<"Duke", "Assassin", "Captain", "Ambassador", "Contessa", "Inquisitor",
      "Jester", "Bureaucrat", "Speculator", "Socialist">>

enabledCharacterList(config) ==
    Filter(CharacterOrder, LAMBDA c : c \in config.enabledCharacters)

(* for (char of enabledCharacters) if (action && coins >= actionCost)    *)
(*     if (!actions.includes(action)) actions.push(action)               *)
RECURSIVE PushCharacterActions(_, _, _)
PushCharacterActions(actions, chars, coins) ==
    IF chars = <<>> THEN actions
    ELSE LET action == CharacterAction(Head(chars))
             push == /\ action # Undefined
                     /\ coins >= CharacterActionCost(Head(chars))
                     /\ action \notin Range(actions)
         IN PushCharacterActions(IF push THEN Append(actions, action) ELSE actions,
                                 Tail(chars), coins)

(* the array getAvailableActions returns *)
availableActionList(s) ==
    LET player == s.players[s.currentPlayerIndex + 1]
        general == <<"Income", "ForeignAid">>
                   \o (IF player.coins >= COUP_COST THEN <<"Coup">> ELSE <<>>)
    IN IF player.coins >= FORCED_COUP_THRESHOLD THEN <<"Coup">>
       ELSE PushCharacterActions(general, enabledCharacterList(s.config), player.coins)

(* variant: no forced Coup *)
getAvailableActions_Unforced(s) ==
    LET player == s.players[s.currentPlayerIndex + 1]
    IN {"Income", "ForeignAid"}
       \cup (IF player.coins >= COUP_COST THEN {"Coup"} ELSE {})
       \cup {CharacterAction(c) : c \in {x \in s.config.enabledCharacters :
                   /\ CharacterAction(x) # Undefined
                   /\ player.coins >= CharacterActionCost(x)}}

getAvailableActions(s) ==
    LET player == s.players[s.currentPlayerIndex + 1]
    IN IF player.coins >= FORCED_COUP_THRESHOLD THEN {"Coup"}
       ELSE {"Income", "ForeignAid"}
            \cup (IF player.coins >= COUP_COST THEN {"Coup"} ELSE {})
            \cup {CharacterAction(c) : c \in {x \in s.config.enabledCharacters :
                        /\ CharacterAction(x) # Undefined
                        /\ player.coins >= CharacterActionCost(x)}}

----------------------------------------------------------------------------
(* The calls.  lastOp records the last call and whether it threw; turnOps *)
(* the names of the calls accepted since the last declareAction; firstTurn *)
(* the turn number the explored game started with; directCalls the number  *)
(* of calls made so far that did not come through the game screen.         *)
(* A direct call is explored as the last call of a run, during the first   *)
(* turn of the explored game.                                              *)

NoArgs ==
    [op |-> "createGame", player |-> Undefined, target |-> Undefined,
     type |-> Undefined, character |-> Undefined, index |-> -1,
     flag |-> FALSE, kept |-> <<>>, returned |-> <<>>, threw |-> FALSE]

(* a call with these arguments and these possible results *)
Call(args, outcomes) ==
    /\ IF outcomes = {}
       THEN /\ state' = state
            /\ lastOp' = [args EXCEPT !.threw = TRUE]
            /\ turnOps' = turnOps
       ELSE /\ state' \in outcomes
            /\ lastOp' = args
            /\ turnOps' = IF args.op = "declareAction" THEN {args.op}
                          ELSE turnOps \cup {args.op}
    /\ UNCHANGED firstTurn

CallDeclareAction(action) ==
    Call([NoArgs EXCEPT !.op = "declareAction", !.player = action.sourcePlayerId,
                        !.target = action.targetPlayerId, !.type = action.type,
                        !.character = action.claimedCharacter],
         declareAction(state, action))

CallChallengeAction(p) ==
    Call([NoArgs EXCEPT !.op = "challengeAction", !.player = p], challengeAction(state, p))

CallPassChallenge(p) ==
    Call([NoArgs EXCEPT !.op = "passChallenge", !.player = p], passChallenge(state, p))

CallDeclareBlock(p, c) ==
    Call([NoArgs EXCEPT !.op = "declareBlock", !.player = p, !.character = c],
         declareBlock(state, p, c))

CallPassBlock(p) ==
    Call([NoArgs EXCEPT !.op = "passBlock", !.player = p], passBlock(state, p))

CallChallengeBlock(p) ==
    Call([NoArgs EXCEPT !.op = "challengeBlock", !.player = p], challengeBlock(state, p))

CallSelectCardToLose(p, i) ==
    Call([NoArgs EXCEPT !.op = "selectCardToLose", !.player = p, !.index = i],
         selectCardToLose(state, p, i))

CallCompleteExchange(p, kept, returned) ==
    Call([NoArgs EXCEPT !.op = "completeExchange", !.player = p,
                        !.kept = kept, !.returned = returned],
         completeExchange(state, p, kept, returned))

CallResolveInquisitorChoice(choice, t) ==
    Call([NoArgs EXCEPT !.op = "resolveInquisitorChoice", !.type = choice, !.target = t],
         resolveInquisitorChoice(state, choice, t))

CallResolveExamine(force, i) ==
    Call([NoArgs EXCEPT !.op = "resolveExamine", !.flag = force, !.index = i],
         resolveExamine(state, force, i))

CallDeclareCoupRedirect(p, t) ==
    Call([NoArgs EXCEPT !.op = "declareCoupRedirect", !.player = p, !.target = t],
         declareCoupRedirect(state, p, t))

CallPassCoupRedirect(p) ==
    Call([NoArgs EXCEPT !.op = "passCoupRedirect", !.player = p], passCoupRedirect(state, p))

CallChallengeCoupRedirect(p) ==
    Call([NoArgs EXCEPT !.op = "challengeCoupRedirect", !.player = p],
         challengeCoupRedirect(state, p))

CallPassCoupRedirectChallenge(p) ==
    Call([NoArgs EXCEPT !.op = "passCoupRedirectChallenge", !.player = p],
         passCoupRedirectChallenge(state, p))

----------------------------------------------------------------------------
(* The game screen (components/game3d/HUD.tsx, contexts/GameContext.tsx): *)
(* the calls it offers to the players in each phase.                      *)

RosterIds(s) == {s.players[i].id : i \in 1..Len(s.players)}

AliveIds(s) == {s.players[i].id : i \in {j \in 1..Len(s.players) : ~s.players[j].isEliminated}}

CurrentPlayerId(s) == s.players[s.currentPlayerIndex + 1].id

(* Object.values(CHARACTER_DEFINITIONS).find(d => d.action === type) *)
CharacterForAction(type) ==
    IF \E c \in Character : CharacterAction(c) = type
    THEN CHOOSE c \in Character : CharacterAction(c) = type
    ELSE Undefined

(* ActionButtons: charDef?.requiresTarget || action === Coup *)
NeedsTarget(type) ==
    \/ type = "Coup"
    \/ /\ CharacterForAction(type) # Undefined
       /\ CharacterRequiresTarget(CharacterForAction(type))

(* humanNeedsToRespond *)
NeedsToRespond(s, p) ==
    /\ p \in AliveIds(s)
    /\ p \notin Range(s.respondedPlayerIds)
    /\ p # s.pendingAction.sourcePlayerId

WithinTurns ==
    state.turnNumber < firstTurn + (IF Len(state.players) = 2 THEN MaxTurn ELSE MaxTurnMany)

UiDeclareAction ==
    /\ state.phase = "AwaitingAction"
    /\ WithinTurns
    /\ \E type \in getAvailableActions(state) :
       \E t \in IF NeedsTarget(type)
                THEN AliveIds(state) \ {CurrentPlayerId(state)}
                ELSE {Undefined} :
          CallDeclareAction(GameAction(type, CurrentPlayerId(state), t, CharacterForAction(type)))
    /\ UNCHANGED <<directCalls, inFlight>>

UiChallengeAction ==
    /\ state.phase = "AwaitingChallengeOnAction"
    /\ \E p \in RosterIds(state) : NeedsToRespond(state, p) /\ CallChallengeAction(p)
    /\ UNCHANGED <<directCalls, inFlight>>

UiPassChallenge ==
    /\ state.phase = "AwaitingChallengeOnAction"
    /\ \E p \in RosterIds(state) : NeedsToRespond(state, p) /\ CallPassChallenge(p)
    /\ UNCHANGED <<directCalls, inFlight>>

UiDeclareBlock ==
    /\ state.phase = "AwaitingBlock"
    /\ \E p \in RosterIds(state) :
       \E c \in getCharactersThatBlock(state.pendingAction.type, state.config.enabledCharacters) :
          NeedsToRespond(state, p) /\ CallDeclareBlock(p, c)
    /\ UNCHANGED <<directCalls, inFlight>>

UiPassBlock ==
    /\ state.phase = "AwaitingBlock"
    /\ \E p \in RosterIds(state) : NeedsToRespond(state, p) /\ CallPassBlock(p)
    /\ UNCHANGED <<directCalls, inFlight>>

(* only the actor is shown the block; "Aceitar" calls passChallenge *)
UiChallengeBlock ==
    /\ state.phase = "AwaitingChallengeOnBlock"
    /\ CallChallengeBlock(state.pendingAction.sourcePlayerId)
    /\ UNCHANGED <<directCalls, inFlight>>

UiAcceptBlock ==
    /\ state.phase = "AwaitingChallengeOnBlock"
    /\ CallPassChallenge(state.pendingAction.sourcePlayerId)
    /\ UNCHANGED <<directCalls, inFlight>>

(* CardLoseBar: the players named in respondedPlayerIds, their unrevealed cards *)
UiSelectCardToLose ==
    /\ state.phase = "AwaitingCardSelection"
    /\ \E p \in Range(state.respondedPlayerIds) \cap RosterIds(state) :
       \E i \in 1..Len(getPlayerById(state, p).influenceCards) :
          /\ ~getPlayerById(state, p).influenceCards[i].isRevealed
          /\ CallSelectCardToLose(p, i - 1)
    /\ UNCHANGED <<directCalls, inFlight>>

(* ExchangeBar: allCards = unrevealed cards ++ drawnCards; the player picks *)
(* keepCount of them, in click order; the rest is returned in list order   *)
ExchangeChoices(s, p) ==
    LET allCards == Characters(getAliveInfluence(getPlayerById(s, p))) \o s.drawnCards
        keepCount == AliveCount(getPlayerById(s, p))
        picks == {sel \in [1..keepCount -> 1..Len(allCards)] :
                    \A a, b \in 1..keepCount : a # b => sel[a] # sel[b]}
        rest(sel) == SelectSeq([i \in 1..Len(allCards) |-> i],
                               LAMBDA i : \A a \in 1..keepCount : sel[a] # i)
    IN {<<[a \in 1..keepCount |-> allCards[sel[a]]],
          [j \in 1..Len(rest(sel)) |-> allCards[rest(sel)[j]]]>> : sel \in picks}

UiCompleteExchange ==
    /\ state.phase = "AwaitingExchangeSelection"
    /\ HasPlayer(state, state.pendingAction.sourcePlayerId)
    /\ \E ch \in ExchangeChoices(state, state.pendingAction.sourcePlayerId) :
          CallCompleteExchange(state.pendingAction.sourcePlayerId, ch[1], ch[2])
    /\ UNCHANGED <<directCalls, inFlight>>

UiResolveInquisitorChoice ==
    /\ state.phase = "AwaitingInquisitorChoice"
    /\ \/ CallResolveInquisitorChoice("self-exchange", Undefined)
       \/ \E t \in AliveIds(state) \ {state.pendingAction.sourcePlayerId} :
             CallResolveInquisitorChoice("examine", t)
    /\ UNCHANGED <<directCalls, inFlight>>

UiResolveExamine ==
    /\ state.phase = "AwaitingExamineDecision"
    /\ Truthy(state.pendingAction.targetPlayerId)
    /\ \E force \in BOOLEAN : CallResolveExamine(force, state.pendingAction.examinedCard.index)
    /\ UNCHANGED <<directCalls, inFlight>>

(* CoupRedirectBar: shown to the chain's last entry *)
UiDeclareCoupRedirect ==
    /\ state.phase = "AwaitingCoupRedirect"
    /\ Len(state.coupRedirectChain) < MaxChain
    /\ \E t \in AliveIds(state) \ {TailOf(state.coupRedirectChain)} :
          CallDeclareCoupRedirect(TailOf(state.coupRedirectChain), t)
    /\ UNCHANGED <<directCalls, inFlight>>

UiPassCoupRedirect ==
    /\ state.phase = "AwaitingCoupRedirect"
    /\ CallPassCoupRedirect(TailOf(state.coupRedirectChain))
    /\ UNCHANGED <<directCalls, inFlight>>

CanAnswerRedirect(s, p) ==
    /\ p \in AliveIds(s)
    /\ p # RedirectorOf(s.coupRedirectChain)
    /\ p \notin Range(s.respondedPlayerIds)

UiChallengeCoupRedirect ==
    /\ state.phase = "AwaitingCoupRedirectChallenge"
    /\ \E p \in RosterIds(state) : CanAnswerRedirect(state, p) /\ CallChallengeCoupRedirect(p)
    /\ UNCHANGED <<directCalls, inFlight>>

UiPassCoupRedirectChallenge ==
    /\ state.phase = "AwaitingCoupRedirectChallenge"
    /\ \E p \in RosterIds(state) : CanAnswerRedirect(state, p) /\ CallPassCoupRedirectChallenge(p)
    /\ UNCHANGED <<directCalls, inFlight>>

----------------------------------------------------------------------------
(* Specification of a match played through the game screen *)

Init ==
    /\ \E g \in Games : state = PickedUp(g)
    /\ lastOp = NoArgs
    /\ turnOps = {}
    /\ firstTurn = state.turnNumber
    /\ directCalls = 0
    /\ inFlight = <<>>

Next ==
    \/ UiDeclareAction
    \/ UiChallengeAction
    \/ UiPassChallenge
    \/ UiDeclareBlock
    \/ UiPassBlock
    \/ UiChallengeBlock
    \/ UiAcceptBlock
    \/ UiSelectCardToLose
    \/ UiCompleteExchange
    \/ UiResolveInquisitorChoice
    \/ UiResolveExamine
    \/ UiDeclareCoupRedirect
    \/ UiPassCoupRedirect
    \/ UiChallengeCoupRedirect
    \/ UiPassCoupRedirectChallenge

Spec == Init /\ [][Next]_vars

----------------------------------------------------------------------------
(* Direct calls of the exported functions: any function in any phase with *)
(* any arguments, as a test script or another collaborator can make them. *)

AnyId(s) == RosterIds(s) \cup {UnknownId}

(* the general actions and the actions of the enabled characters *)
DeclarableTypes(s) ==
    GeneralActions \cup
    {CharacterAction(c) : c \in {x \in s.config.enabledCharacters : CharacterAction(x) # Undefined}}

Direct(call) ==
    /\ directCalls = 0
    /\ state.turnNumber = firstTurn
    /\ call
    /\ directCalls' = directCalls + 1
    /\ UNCHANGED inFlight

DirectDeclareAction ==
    Direct(\E type \in DeclarableTypes(state), src \in AnyId(state) :
           \E t \in IF NeedsTarget(type) THEN AnyId(state) ELSE {Undefined} :
              CallDeclareAction(GameAction(type, src, t, CharacterForAction(type))))

DirectChallengeAction == Direct(\E p \in AnyId(state) : CallChallengeAction(p))

DirectPassChallenge == Direct(\E p \in AnyId(state) : CallPassChallenge(p))

DirectDeclareBlock ==
    Direct(\E p \in AnyId(state), c \in state.config.enabledCharacters : CallDeclareBlock(p, c))

DirectPassBlock == Direct(\E p \in AnyId(state) : CallPassBlock(p))

DirectChallengeBlock == Direct(\E p \in AnyId(state) : CallChallengeBlock(p))

DirectSelectCardToLose ==
    Direct(\E p \in AnyId(state), i \in 0..2 : CallSelectCardToLose(p, i))

(* kept and returned lists that need not come from the player's cards *)
DirectKept == {<<>>, <<"Duke">>, <<"Duke", "Duke">>, <<"Jester", "Duke">>}

DirectReturned == {<<>>, <<"Duke">>}

DirectCompleteExchange ==
    Direct(\E p \in AnyId(state), kept \in DirectKept, returned \in DirectReturned :
              CallCompleteExchange(p, kept, returned))

DirectResolveInquisitorChoice ==
    Direct(\/ CallResolveInquisitorChoice("self-exchange", Undefined)
           \/ \E t \in AnyId(state) \cup {Undefined} : CallResolveInquisitorChoice("examine", t))

DirectResolveExamine ==
    Direct(\E force \in BOOLEAN, i \in 0..2 : CallResolveExamine(force, i))

DirectDeclareCoupRedirect ==
    Direct(\E p \in AnyId(state), t \in AnyId(state) : CallDeclareCoupRedirect(p, t))

DirectPassCoupRedirect == Direct(\E p \in AnyId(state) : CallPassCoupRedirect(p))

DirectChallengeCoupRedirect == Direct(\E p \in AnyId(state) : CallChallengeCoupRedirect(p))

DirectPassCoupRedirectChallenge ==
    Direct(\E p \in AnyId(state) : CallPassCoupRedirectChallenge(p))

DirectAdvanceTurn ==
    Direct(Call([NoArgs EXCEPT !.op = "advanceTurn"], {advanceTurn(state)}))

NextDirect ==
    \/ directCalls = 0 /\ Next
    \/ DirectDeclareAction
    \/ DirectChallengeAction
    \/ DirectPassChallenge
    \/ DirectDeclareBlock
    \/ DirectPassBlock
    \/ DirectChallengeBlock
    \/ DirectSelectCardToLose
    \/ DirectCompleteExchange
    \/ DirectResolveInquisitorChoice
    \/ DirectResolveExamine
    \/ DirectDeclareCoupRedirect
    \/ DirectPassCoupRedirect
    \/ DirectChallengeCoupRedirect
    \/ DirectPassCoupRedirectChallenge
    \/ DirectAdvanceTurn

SpecDirect == Init /\ [][NextDirect]_vars

----------------------------------------------------------------------------
(* A match whose first call is a direct declareAction (any source, any   *)
(* target, affordable or not) and which goes on through the game screen. *)

NextDeclared ==
    \/ DirectDeclareAction
    \/ directCalls = 1 /\ Next

SpecDeclared == Init /\ [][NextDeclared]_vars

----------------------------------------------------------------------------
(* The relay (server/index.js) and its clients (contexts/GameContext.tsx). *)
(* state is rooms[code].gameState.  A client holds the state the relay    *)
(* sent it last, filterStateForPlayer(state, its id); a click computes    *)
(* the successor from that copy with the engine and sends it as newState  *)
(* of a game_action message, which the relay stores as it comes.  A call  *)
(* that throws in the client sends nothing.                               *)

filterStateForPlayer(s, socketId) ==
    LET isActingPlayer == s.pendingAction.sourcePlayerId = socketId
        hide(card) == IF card.isRevealed THEN card ELSE [card EXCEPT !.character = Hidden]
    IN [s EXCEPT
          !.drawnCards = IF isActingPlayer THEN @ ELSE <<>>,
          !.players = [i \in 1..Len(s.players) |->
                IF s.players[i].id = socketId THEN s.players[i]
                ELSE [s.players[i] EXCEPT !.influenceCards =
                        [j \in 1..Len(s.players[i].influenceCards) |->
                            hide(s.players[i].influenceCards[j])]]]]

(* a click: the engine call and the states it can return *)
Click(args, outcomes) == [args |-> args, outcomes |-> outcomes]

(* HUD.tsx: the controls client v is shown for its copy s of the state *)
OfferedClicks(s, v) ==
    LET src == s.pendingAction.sourcePlayerId
        own == getPlayerById(s, v)
        arg(op) == [NoArgs EXCEPT !.op = op, !.player = v]
    IN CASE s.phase = "AwaitingAction" /\ v = CurrentPlayerId(s) ->
              {Click([arg("declareAction") EXCEPT !.target = t, !.type = type,
                                                  !.character = CharacterForAction(type)],
                     declareAction(s, GameAction(type, v, t, CharacterForAction(type)))) :
                 <<type, t>> \in
                    UNION {{<<ty, x>> : x \in IF NeedsTarget(ty) THEN AliveIds(s) \ {v}
                                              ELSE {Undefined}} :
                           ty \in getAvailableActions(s)}}
         [] s.phase = "AwaitingChallengeOnAction" /\ NeedsToRespond(s, v) ->
              {Click(arg("challengeAction"), challengeAction(s, v)),
               Click(arg("passChallenge"), passChallenge(s, v))}
         [] s.phase = "AwaitingBlock" /\ NeedsToRespond(s, v) ->
              {Click([arg("declareBlock") EXCEPT !.character = c], declareBlock(s, v, c)) :
                 c \in getCharactersThatBlock(s.pendingAction.type, s.config.enabledCharacters)}
              \cup {Click(arg("passBlock"), passBlock(s, v))}
         [] s.phase = "AwaitingChallengeOnBlock" /\ v = src ->
              {Click(arg("challengeBlock"), challengeBlock(s, v)),
               Click(arg("passChallenge"), passChallenge(s, v))}
         [] s.phase = "AwaitingCardSelection" /\ v \in Range(s.respondedPlayerIds) ->
              {Click([arg("selectCardToLose") EXCEPT !.index = i - 1],
                     selectCardToLose(s, v, i - 1)) :
                 i \in {j \in 1..Len(own.influenceCards) : ~own.influenceCards[j].isRevealed}}
         [] s.phase = "AwaitingExchangeSelection" /\ v = src ->
              {Click([arg("completeExchange") EXCEPT !.kept = ch[1], !.returned = ch[2]],
                     completeExchange(s, v, ch[1], ch[2])) : ch \in ExchangeChoices(s, v)}
         [] s.phase = "AwaitingInquisitorChoice" /\ v = src ->
              {Click([NoArgs EXCEPT !.op = "resolveInquisitorChoice", !.type = "self-exchange"],
                     resolveInquisitorChoice(s, "self-exchange", Undefined))}
              \cup {Click([NoArgs EXCEPT !.op = "resolveInquisitorChoice",
                                         !.type = "examine", !.target = t],
                          resolveInquisitorChoice(s, "examine", t)) : t \in AliveIds(s) \ {v}}
         [] /\ s.phase = "AwaitingExamineDecision"
            /\ v = src
            /\ Truthy(s.pendingAction.targetPlayerId) ->
              {Click([NoArgs EXCEPT !.op = "resolveExamine", !.flag = force,
                                    !.index = s.pendingAction.examinedCard.index],
                     resolveExamine(s, force, s.pendingAction.examinedCard.index)) :
                 force \in BOOLEAN}
         [] s.phase = "AwaitingCoupRedirect" /\ v = TailOf(s.coupRedirectChain) ->
              {Click([arg("declareCoupRedirect") EXCEPT !.target = t],
                     declareCoupRedirect(s, v, t)) :
                 t \in IF Len(s.coupRedirectChain) < MaxChain THEN AliveIds(s) \ {v} ELSE {}}
              \cup {Click(arg("passCoupRedirect"), passCoupRedirect(s, v))}
         [] s.phase = "AwaitingCoupRedirectChallenge" /\ CanAnswerRedirect(s, v) ->
              {Click(arg("challengeCoupRedirect"), challengeCoupRedirect(s, v)),
               Click(arg("passCoupRedirectChallenge"), passCoupRedirectChallenge(s, v))}
         [] OTHER -> {}

(* socket.on('game_action'): rooms[roomCode].gameState = newState *)
(* the clients with a game_action on its way *)
Senders == {inFlight[i].from : i \in 1..Len(inFlight)}

RelayGameAction ==
    /\ state.phase = "AwaitingAction" => WithinTurns
    /\ \E v \in RosterIds(state) \ Senders :
       \E c \in OfferedClicks(filterStateForPlayer(state, v), v) : Call(c.args, c.outcomes)
    /\ UNCHANGED <<directCalls, inFlight>>

(* startGame: the host's createGame result is the first newState *)
InitRelay ==
    /\ \E g \in Games : state = createGame(Config(g.chars), g.deal)
    /\ lastOp = NoArgs
    /\ turnOps = {}
    /\ firstTurn = state.turnNumber
    /\ directCalls = 0
    /\ inFlight = <<>>

(* updateState: client v emits game_action with the newState it computed *)
(* on the state it was sent last; the message is on its way              *)
ClientEmit ==
    /\ Len(inFlight) < MaxInFlight
    /\ state.phase = "AwaitingAction" => WithinTurns
    /\ \E v \in RosterIds(state) \ Senders :
       \E c \in OfferedClicks(filterStateForPlayer(state, v), v) :
       \E newState \in c.outcomes :
          inFlight' = Append(inFlight, [from |-> v, args |-> c.args, newState |-> newState])
    /\ UNCHANGED <<state, lastOp, turnOps, firstTurn, directCalls>>

(* socket.on('game_action'): rooms[roomCode].gameState = newState, for   *)
(* the messages in the order they arrive                                  *)
RelayReceive ==
    /\ \E i \in 1..Len(inFlight) :
          /\ state' = inFlight[i].newState
          /\ lastOp' = inFlight[i].args
          /\ turnOps' = IF inFlight[i].args.op = "declareAction" THEN {"declareAction"}
                        ELSE turnOps \cup {inFlight[i].args.op}
          /\ inFlight' = SubSeq(inFlight, 1, i - 1) \o SubSeq(inFlight, i + 1, Len(inFlight))
    /\ UNCHANGED <<firstTurn, directCalls>>

NextRelay == RelayGameAction \/ ClientEmit \/ RelayReceive

SpecRelay == InitRelay /\ [][NextRelay]_vars

----------------------------------------------------------------------------
(* Properties *)

CoinsOf(s, id) == getPlayerById(s, id).coins

CardsOf(s, id) == getPlayerById(s, id).influenceCards

(* the number of cards of character c in the players' hands, by face *)
HeldCount(s, c, revealed) ==
    LET RECURSIVE Sum(_)
        Sum(i) == IF i = 0 THEN 0
                  ELSE Cardinality({j \in 1..Len(s.players[i].influenceCards) :
                            /\ s.players[i].influenceCards[j].character = c
                            /\ s.players[i].influenceCards[j].isRevealed = revealed})
                       + Sum(i - 1)
    IN Sum(Len(s.players))

(* the step taken is an accepted call of this function *)
Accepted(op) == lastOp'.op = op /\ ~lastOp'.threw

(* C1: for every character c, in every reachable state, the copies of c in *)
(* the court deck plus the unrevealed and the revealed copies in the       *)
(* players' hands number config.cardsPerCharacter.                         *)
C1_DeckConservation ==
    \A c \in state.config.enabledCharacters :
        state.courtDeck[c] + HeldCount(state, c, FALSE) + HeldCount(state, c, TRUE)
            = state.config.cardsPerCharacter

(* C2: declaring Assassinate or Coup lowers the source's coins by exactly  *)
(* the cost in the declaring step, and while that action is pending no     *)
(* step (challenge won or lost, block, redirect, double loss) raises the   *)
(* source's coins again.                                                   *)
CostlyPending(s) == s.pendingAction.type \in {"Assassinate", "Coup"}

IllegalDeclare(s, args) ==
    \/ args.player # CurrentPlayerId(s)
    \/ CoinsOf(s, args.player) < getActionCost(args.type)
    \/ CoinsOf(s, args.player) >= FORCED_COUP_THRESHOLD /\ args.type # "Coup"

C3_DeclareRejected ==
    [][(lastOp'.op = "declareAction" /\ IllegalDeclare(state, lastOp'))
            => (lastOp'.threw /\ state' = state)]_vars

(* C4: a player is flagged eliminated exactly when the player has no       *)
(* unrevealed card, and the flag is never taken back.                      *)
EliminatedIffNoInfluence ==
    \A i \in 1..Len(state.players) :
        state.players[i].isEliminated <=> AliveCount(state.players[i]) = 0

C4_Elimination ==
    /\ []EliminatedIffNoInfluence
    /\ [][\A i \in 1..Len(state.players) :
            state.players[i].isEliminated => state'.players[i].isEliminated]_vars

(* a player lost the last card and the match goes on *)
C4_Witness ==
    /\ \E i \in 1..Len(state.players) :
          state.players[i].isEliminated /\ AliveCount(state.players[i]) = 0
    /\ state.phase = "AwaitingAction"

C6_GameOverTerminal ==
    [][state.phase = "GameOver"
            => /\ state'.phase = "GameOver"
               /\ state'.winnerId = state.winnerId
               /\ state'.players = state.players
               /\ state'.courtDeck = state.courtDeck]_vars

(* C7: an Assassinate that nobody challenged or blocked takes one card: a  *)
(* target with two unrevealed cards has one left after its selectCardToLose *)
(* and the next player's turn begins.                                      *)
C7_AssassinateTakesOne ==
    [][(/\ Accepted("selectCardToLose")
        /\ state.phase = "AwaitingCardSelection"
        /\ state.pendingAction.type = "Assassinate"
        /\ state.cardSelectionReason = "action-effect"
        /\ turnOps \cap {"challengeAction", "declareBlock"} = {}
        /\ lastOp'.player = state.pendingAction.targetPlayerId
        /\ AliveCount(getPlayerById(state, lastOp'.player)) = 2)
            => /\ AliveCount(getPlayerById(state', lastOp'.player)) = 1
               /\ state'.phase = "AwaitingAction"
               /\ state'.turnNumber = state.turnNumber + 1]_vars

(* C8: after a failed challenge of a redirect and the challenger's penalty *)
(* (automatic or through selectCardToLose) the Coup is still pending on    *)
(* the chain's tail: the turn does not advance unless the tail is out or   *)
(* the game is over.                                                       *)
RedirectChallengeFails(s) ==
    /\ s.phase = "AwaitingCoupRedirectChallenge"
    /\ HasPlayer(s, RedirectorOf(s.coupRedirectChain))
    /\ jesterCount(getPlayerById(s, RedirectorOf(s.coupRedirectChain)))
          >= redirectorOccurrences(s.coupRedirectChain)

RedirectPenaltyPending(s) ==
    /\ s.phase = "AwaitingCardSelection"
    /\ s.pendingAction.type = "Coup"
    /\ s.cardSelectionReason = "challenge-penalty"
    /\ s.coupRedirectChain # <<>>

C8_CoupStaysLive ==
    [][(\/ Accepted("challengeCoupRedirect") /\ RedirectChallengeFails(state)
        \/ Accepted("selectCardToLose") /\ RedirectPenaltyPending(state))
            => (state'.phase = "AwaitingAction"
                  => getPlayerById(state', TailOf(state.coupRedirectChain)).isEliminated)]_vars

(* C9: a challenge of a redirect whose redirector holds fewer unrevealed   *)
(* Jesters than its earlier entries in the chain reveals all the           *)
(* redirector's cards in that step; the chain is cleared and the turn      *)
(* advances, or the game is over; nobody else's cards change.              *)
RedirectChallengeSucceeds(s) ==
    /\ s.phase = "AwaitingCoupRedirectChallenge"
    /\ HasPlayer(s, RedirectorOf(s.coupRedirectChain))
    /\ jesterCount(getPlayerById(s, RedirectorOf(s.coupRedirectChain)))
          < redirectorOccurrences(s.coupRedirectChain)

C10_UnanimousPass ==
    [][(/\ Accepted("passBlock")
        /\ state.phase = "AwaitingBlock"
        /\ state.pendingAction.type = "ForeignAid"
        /\ \E q \in AliveIds(state) \ {state.pendingAction.sourcePlayerId} :
              q \notin Range(state.respondedPlayerIds) \cup {lastOp'.player})
            => /\ state'.phase = "AwaitingBlock"
               /\ CoinsOf(state', state.pendingAction.sourcePlayerId)
                    = CoinsOf(state, state.pendingAction.sourcePlayerId)]_vars

TargetRestricted(s) == s.pendingAction.type \in {"Assassinate", "Steal"}

(* C11: with three or more alive players, the block phase of an           *)
(* Assassinate or a Steal ends as soon as the target calls passBlock: the *)
(* phase is no longer AwaitingBlock, whoever else has not passed.         *)
C11_TargetPassEndsBlock ==
    [][(/\ Accepted("passBlock")
        /\ state.phase = "AwaitingBlock"
        /\ TargetRestricted(state)
        /\ Cardinality(AliveIds(state)) >= 3
        /\ lastOp'.player = state.pendingAction.targetPlayerId)
            => state'.phase # "AwaitingBlock"]_vars

(* C12: in the block phase of an Assassinate or a Steal, declareBlock by  *)
(* a player other than the target throws and leaves the state unchanged;  *)
(* a ForeignAid may be blocked by any alive player other than the actor.  *)
C12_OnlyTargetBlocks ==
    [][/\ (/\ lastOp'.op = "declareBlock"
           /\ state.phase = "AwaitingBlock"
           /\ TargetRestricted(state)
           /\ lastOp'.player # state.pendingAction.targetPlayerId)
            => (lastOp'.threw /\ state' = state)
       /\ (/\ lastOp'.op = "declareBlock"
           /\ state.phase = "AwaitingBlock"
           /\ state.pendingAction.type = "ForeignAid"
           /\ lastOp'.player \in AliveIds(state) \ {state.pendingAction.sourcePlayerId}
           /\ lastOp'.character \in getCharactersThatBlock("ForeignAid",
                                        state.config.enabledCharacters))
            => ~lastOp'.threw]_vars

BlockerHolds(s) ==
    \E i \in 1..Len(CardsOf(s, s.pendingBlock.blockingPlayerId)) :
        /\ ~CardsOf(s, s.pendingBlock.blockingPlayerId)[i].isRevealed
        /\ CardsOf(s, s.pendingBlock.blockingPlayerId)[i].character
              = s.pendingBlock.claimedCharacter

(* the blocker was caught bluffing and gives up the last card in the call *)
BlockOverturnedAuto(s) ==
    /\ s.phase = "AwaitingChallengeOnBlock"
    /\ HasPlayer(s, s.pendingBlock.blockingPlayerId)
    /\ ~BlockerHolds(s)
    /\ AliveCount(getPlayerById(s, s.pendingBlock.blockingPlayerId)) = 1

(* the blocker was caught bluffing and has to choose the card to give up *)
BlockOverturnedPending(s, last) ==
    /\ last.op = "challengeBlock"
    /\ ~last.threw
    /\ s.phase = "AwaitingCardSelection"
    /\ s.cardSelectionReason = "challenge-penalty"
    /\ s.respondedPlayerIds = <<s.pendingBlock.blockingPlayerId>>

ActionTookEffect(s, t) ==
    LET a == s.pendingAction
        ended == t.phase = "AwaitingAction" /\ t.turnNumber = s.turnNumber + 1
    IN /\ a.type = "ForeignAid"
            => ended /\ CoinsOf(t, a.sourcePlayerId) = CoinsOf(s, a.sourcePlayerId) + 2
       /\ a.type = "Steal"
            => /\ ended
               /\ CoinsOf(t, a.sourcePlayerId)
                    = CoinsOf(s, a.sourcePlayerId) + Min(2, CoinsOf(s, a.targetPlayerId))

(* C13: when challengeBlock catches the blocker without the claimed card, *)
(* the blocker loses one influence (at once with one card left, through   *)
(* selectCardToLose with two), then the blocked action takes effect and   *)
(* the turn ends; the phase does not go back to AwaitingBlock.            *)
C13_OverturnedBlockResolves ==
    [][(\/ Accepted("challengeBlock") /\ BlockOverturnedAuto(state)
        \/ /\ Accepted("selectCardToLose")
           /\ BlockOverturnedPending(state, lastOp)
           /\ lastOp'.player = state.pendingBlock.blockingPlayerId)
            => /\ state'.phase # "AwaitingBlock"
               /\ state'.phase # "GameOver" => ActionTookEffect(state, state')]_vars

TotalCoins(s) ==
    LET RECURSIVE Sum(_)
        Sum(i) == IF i = 0 THEN 0 ELSE s.players[i].coins + Sum(i - 1)
    IN Sum(Len(s.players))

(* C14: resolving SocialistRedistribute leaves the sum of the players'    *)
(* coins unchanged: no step taken while the redistribution is pending,    *)
(* its resolution included, changes the total.                            *)
C14_RedistributeConserves ==
    [][state.pendingAction.type = "SocialistRedistribute"
            => TotalCoins(state') = TotalCoins(state)]_vars

(* the phases in which the engine's callers use each operation *)
PhasesOf(op) ==
    CASE op = "declareAction" -> {"AwaitingAction"}
      [] op \in {"challengeAction", "passChallenge"}
            -> {"AwaitingChallengeOnAction", "AwaitingChallengeOnBlock"}
      [] op \in {"declareBlock", "passBlock"} -> {"AwaitingBlock"}
      [] op = "challengeBlock" -> {"AwaitingChallengeOnBlock"}
      [] op = "selectCardToLose" -> {"AwaitingCardSelection"}
      [] op \in {"declareCoupRedirect", "passCoupRedirect"} -> {"AwaitingCoupRedirect"}
      [] op \in {"challengeCoupRedirect", "passCoupRedirectChallenge"}
            -> {"AwaitingCoupRedirectChallenge"}
      [] OTHER -> GamePhase

Rejected == lastOp'.threw /\ state' = state

(* C15: an operation called in a phase other than its own (declareAction  *)
(* outside AwaitingAction, a challenge or its pass outside a challenge    *)
(* phase, a block or its pass outside AwaitingBlock, and so on) throws    *)
(* and leaves the state unchanged.                                        *)
C15_WrongPhaseRejected ==
    [][state.phase \notin PhasesOf(lastOp'.op) => Rejected]_vars

(* C16: challengeBlock is accepted from the pending action's source and   *)
(* from nobody else: naming another player it throws and leaves the state *)
(* unchanged.                                                             *)
C16_OnlyActorChallengesBlock ==
    [][(lastOp'.op = "challengeBlock" /\ state.phase = "AwaitingChallengeOnBlock")
            => IF lastOp'.player = state.pendingAction.sourcePlayerId
               THEN ~lastOp'.threw
               ELSE Rejected]_vars

(* C17: declareBlock is accepted only with a claimed character that is    *)
(* enabled and lists the pending action's type in blocksActions; with any *)
(* other character it throws and leaves the state unchanged.              *)
C17_BlockerCharacterChecked ==
    [][(/\ lastOp'.op = "declareBlock"
        /\ state.phase = "AwaitingBlock"
        /\ lastOp'.character \notin getCharactersThatBlock(state.pendingAction.type,
                                        state.config.enabledCharacters))
            => Rejected]_vars

(* C18: a call that names a player who is not in the roster throws and    *)
(* leaves the state unchanged; the unknown id never enters                *)
(* respondedPlayerIds.                                                    *)
C18_UnknownPlayerRejected ==
    [][(lastOp'.player = UnknownId \/ lastOp'.target = UnknownId)
            => (Rejected /\ UnknownId \notin Range(state'.respondedPlayerIds))]_vars

(* the card index is out of range or names a revealed card *)
InvalidCard(s, id, cardIndex) ==
    \/ cardIndex + 1 \notin 1..Len(CardsOf(s, id))
    \/ CardsOf(s, id)[cardIndex + 1].isRevealed

InvalidSelection(s, args) ==
    \/ /\ args.op = "selectCardToLose"
       /\ HasPlayer(s, args.player)
       /\ InvalidCard(s, args.player, args.index)
    \/ /\ args.op = "resolveExamine"
       /\ HasPlayer(s, s.pendingAction.targetPlayerId)
       /\ InvalidCard(s, s.pendingAction.targetPlayerId, args.index)
    \/ /\ args.op = "completeExchange"
       /\ HasPlayer(s, args.player)
       /\ Len(args.kept) # AliveCount(getPlayerById(s, args.player))

(* C19: selectCardToLose and resolveExamine with a card index that is out *)
(* of range or already revealed, and completeExchange with a kept list    *)
(* whose size is not the player's number of unrevealed cards, throw and   *)
(* leave the state (players, deck, phase, turn) unchanged.                *)
C19_InvalidSelectionRejected ==
    [][InvalidSelection(state, lastOp') => Rejected]_vars

(* a player with a revealed card was asked for that card again *)
C19_Witness ==
    /\ lastOp.op = "selectCardToLose"
    /\ lastOp.threw
    /\ HasPlayer(state, lastOp.player)
    /\ lastOp.index + 1 \in 1..Len(CardsOf(state, lastOp.player))
    /\ CardsOf(state, lastOp.player)[lastOp.index + 1].isRevealed
    /\ state.phase = "AwaitingCardSelection"

(* C20: in every state reached through calls the engine accepts, every    *)
(* player's coin balance is an integer that is 0 or more.                 *)
C20_CoinsNonNegative ==
    \A i \in 1..Len(state.players) : state.players[i].coins \in Nat

(* a Steal is pending and the step is not a declareAction replacing it *)
StealPending(s) ==
    /\ s.pendingAction.type = "Steal"
    /\ lastOp'.op # "declareAction"
    /\ HasPlayer(s, s.pendingAction.sourcePlayerId)
    /\ HasPlayer(s, s.pendingAction.targetPlayerId)

(* C21: a Steal moves min(2, target.coins) coins from the target to the  *)
(* actor, for every source and target declareAction accepts: no step     *)
(* taken while the Steal is pending changes the sum of the players'      *)
(* coins, the actor gains nothing or exactly that amount, and the target *)
(* is not left below 0.                                                  *)
C21_StealConserves ==
    [][StealPending(state)
        => LET src == state.pendingAction.sourcePlayerId
               tgt == state.pendingAction.targetPlayerId
           IN /\ TotalCoins(state') = TotalCoins(state)
              /\ CoinsOf(state', src) - CoinsOf(state, src)
                    \in {0, Min(2, CoinsOf(state, tgt))}
              /\ CoinsOf(state, tgt) >= 0 => CoinsOf(state', tgt) >= 0]_vars

(* the same for the pairs the game screen offers: another alive player *)
StealFromAnotherConserves ==
    [][(StealPending(state)
        /\ state.pendingAction.sourcePlayerId # state.pendingAction.targetPlayerId)
        => LET src == state.pendingAction.sourcePlayerId
               tgt == state.pendingAction.targetPlayerId
           IN /\ TotalCoins(state') = TotalCoins(state)
              /\ CoinsOf(state', src) - CoinsOf(state, src)
                    \in {0, Min(2, CoinsOf(state, tgt))}
              /\ CoinsOf(state, tgt) >= 0 => CoinsOf(state', tgt) >= 0]_vars

(* the true character of an unrevealed card is in the state *)
HoldsTrueCharacters(s) ==
    \A i \in 1..Len(s.players) :
        \A j \in 1..Len(s.players[i].influenceCards) :
            ~s.players[i].influenceCards[j].isRevealed
                => s.players[i].influenceCards[j].character # Hidden

(* C23: the state the relay keeps for a room holds the true character of *)
(* every unrevealed card after any sequence of game_action messages the  *)
(* clients compute from the redacted states they were sent: no such card *)
(* reads 'hidden'.                                                       *)
C23_RelayKeepsCharacters == HoldsTrueCharacters(state)

(* the state in which card j (1-based) of the player at position i reads c; *)
(* examinedCard is the engine's copy of a card's character and follows it   *)
VaryCard(s, i, j, c) ==
    LET copied == /\ s.pendingAction.targetPlayerId = s.players[i].id
                  /\ s.pendingAction.examinedCard.index = j - 1
                  /\ s.pendingAction.examinedCard.character
                        = s.players[i].influenceCards[j].character
        t == [s EXCEPT !.players[i].influenceCards[j].character = c]
    IN IF copied THEN [t EXCEPT !.pendingAction.examinedCard.character = c] ELSE t

(* what viewer v is sent does not change with card j of the player at i *)
HiddenFrom(s, v, i, j) ==
    \A c \in s.config.enabledCharacters :
        filterStateForPlayer(VaryCard(s, i, j, c), v) = filterStateForPlayer(s, v)

(* what viewer v is sent does not change with the drawn exchange cards *)
DrawnHiddenFrom(s, v) ==
    \A c \in s.config.enabledCharacters :
        filterStateForPlayer([s EXCEPT !.drawnCards = <<c>>], v) = filterStateForPlayer(s, v)

(* C22: the state filterStateForPlayer gives viewer v does not depend on  *)
(* the character of an unrevealed card of another player, nor on the      *)
(* drawn exchange cards when v is not the acting player: states that      *)
(* differ in such a value only are filtered to the same state.            *)
C22_ViewIndependent ==
    \A v \in RosterIds(state) :
        /\ \A i \in 1..Len(state.players) :
              \A j \in 1..Len(state.players[i].influenceCards) :
                 (state.players[i].id # v /\ ~state.players[i].influenceCards[j].isRevealed)
                    => HiddenFrom(state, v, i, j)
        /\ state.pendingAction.sourcePlayerId # v => DrawnHiddenFrom(state, v)

(* the action types that are a character's action *)
CharacterTied == {"Tax", "Assassinate", "Steal", "Exchange", "Examine",
                  "BureaucratTax", "SpeculatorTax", "SocialistRedistribute"}

(* since the pending action was declared, its challenge window was left: *)
(* somebody passed or challenged and the phase moved on                  *)
ChallengeWindowClosed(s, ops) ==
    /\ s.phase # "AwaitingChallengeOnAction"
    /\ ops \cap {"passChallenge", "challengeAction"} # {}

(* C24: an accepted declareAction of a character's action enters         *)
(* AwaitingChallengeOnAction with that action pending, of ForeignAid     *)
(* enters AwaitingBlock, of Income or Coup resolves in the same step     *)
(* (Income pays, Coup opens the redirect or takes the influence); and    *)
(* AwaitingBlock with a character's action pending is reached only once  *)
(* its challenge window was closed by a pass or a challenge.             *)
C24_DeclareRouting ==
    [][/\ Accepted("declareAction")
            => /\ lastOp'.type \in CharacterTied
                    => /\ state'.phase = "AwaitingChallengeOnAction"
                       /\ state'.pendingAction.type = lastOp'.type
                       /\ state'.respondedPlayerIds = <<>>
               /\ lastOp'.type = "ForeignAid"
                    => /\ state'.phase = "AwaitingBlock"
                       /\ state'.pendingAction.type = "ForeignAid"
               /\ lastOp'.type = "Income"
                    => /\ state'.phase \notin {"AwaitingChallengeOnAction", "AwaitingBlock"}
                       /\ CoinsOf(state', lastOp'.player) = CoinsOf(state, lastOp'.player) + 1
               /\ lastOp'.type = "Coup"
                    => state'.phase \in {"AwaitingCoupRedirect", "AwaitingCardSelection",
                                         "AwaitingAction", "GameOver"}
       /\ (state'.phase = "AwaitingBlock" /\ state'.pendingAction.type \in CharacterTied)
            => ChallengeWindowClosed(state', turnOps')]_vars

(* a Steal nobody challenged reached its block phase *)
C24_Witness ==
    /\ state.phase = "AwaitingBlock"
    /\ state.pendingAction.type = "Steal"
    /\ lastOp.op = "passChallenge"
    /\ turnOps = {"declareAction", "passChallenge"}

(* the actor of the pending action holds the claimed character unrevealed *)
ActorHolds(s) ==
    /\ HasPlayer(s, s.pendingAction.sourcePlayerId)
    /\ \E i \in 1..Len(CardsOf(s, s.pendingAction.sourcePlayerId)) :
          /\ ~CardsOf(s, s.pendingAction.sourcePlayerId)[i].isRevealed
          /\ CardsOf(s, s.pendingAction.sourcePlayerId)[i].character
                = s.pendingAction.claimedCharacter

(* the hand after one card of character c went back to deck and was      *)
(* replaced by the card drawn from deck: same length, same faces up, one *)
(* position changed at most, and the deck gave what the hand took        *)
CardReplaced(before, after, c, deck, deckAfter) ==
    /\ Len(after) = Len(before)
    /\ \A i \in 1..Len(before) : after[i].isRevealed = before[i].isRevealed
    /\ \E i \in 1..Len(before) :
          /\ before[i].character = c
          /\ ~before[i].isRevealed
          /\ \A j \in 1..Len(before) : j # i => after[j] = before[j]
          /\ deck[c] + 1 > 0
          /\ deckAfter = DeckRemove(DeckAdd(deck, c), after[i].character)
          /\ DeckAdd(deck, c)[after[i].character] > 0

(* the step ends the turn of state s *)
TurnEnded(s, t) == t.phase = "AwaitingAction" /\ t.turnNumber = s.turnNumber + 1

(* what a failed challenge is followed by, the challenger's card gone:    *)
(* the block phase of a blockable action, the effect of any other action  *)
RoutedAfterFailedChallenge(s, t) ==
    LET a == s.pendingAction
    IN IF isActionBlockable(a.type, s.config.enabledCharacters)
       THEN /\ t.phase = "AwaitingBlock"
            /\ t.pendingAction = a
            /\ t.respondedPlayerIds = <<>>
            /\ \A q \in RosterIds(s) : CoinsOf(t, q) = CoinsOf(s, q)
       ELSE /\ t.phase # "AwaitingBlock"
            /\ a.type \in {"Tax", "SpeculatorTax"}
                  => /\ TurnEnded(s, t)
                     /\ CoinsOf(t, a.sourcePlayerId) = CoinsOf(s, a.sourcePlayerId) + 3
            /\ a.type = "Examine"
                  => t.phase = "AwaitingInquisitorChoice" /\ t.pendingAction = a
            /\ a.type = "SocialistRedistribute"
                  => /\ TurnEnded(s, t)
                     /\ CoinsOf(t, a.sourcePlayerId) >= CoinsOf(s, a.sourcePlayerId)

(* a challenger with two cards lost the challenge and has to select one *)
FailedChallengePending(s, last) ==
    /\ last.op = "challengeAction"
    /\ ~last.threw
    /\ s.phase = "AwaitingCardSelection"
    /\ s.respondedPlayerIds = <<last.player>>
    /\ last.player # s.pendingAction.sourcePlayerId

(* C25: when challengeAction meets an actor who holds the claimed         *)
(* character, that card goes back to the deck and a drawn card takes its  *)
(* place, so the actor has as many unrevealed cards as before; the        *)
(* challenger loses exactly one influence, in the call with one card      *)
(* left and through AwaitingCardSelection otherwise; then an action other *)
(* than Assassinate goes to AwaitingBlock if it is blockable and resolves *)
(* otherwise, the same way after the automatic and the selected loss.     *)
C25_FailedChallenge ==
    [][/\ (/\ Accepted("challengeAction")
           /\ state.phase = "AwaitingChallengeOnAction"
           /\ lastOp'.player # state.pendingAction.sourcePlayerId
           /\ ActorHolds(state))
            => LET a == state.pendingAction
                   ch == lastOp'.player
               IN /\ AliveCount(getPlayerById(state', a.sourcePlayerId))
                        = AliveCount(getPlayerById(state, a.sourcePlayerId))
                  /\ CardReplaced(CardsOf(state, a.sourcePlayerId),
                                  CardsOf(state', a.sourcePlayerId),
                                  a.claimedCharacter, state.courtDeck, state'.courtDeck)
                  /\ IF AliveCount(getPlayerById(state, ch)) = 1
                     THEN /\ AliveCount(getPlayerById(state', ch)) = 0
                          /\ (state'.phase # "GameOver" /\ a.type # "Assassinate")
                                => RoutedAfterFailedChallenge(state, state')
                     ELSE /\ state'.phase = "AwaitingCardSelection"
                          /\ state'.respondedPlayerIds = <<ch>>
                          /\ CardsOf(state', ch) = CardsOf(state, ch)
                          /\ state'.pendingAction = a
       /\ (/\ Accepted("selectCardToLose")
           /\ FailedChallengePending(state, lastOp)
           /\ lastOp'.player = lastOp.player)
            => /\ CardsOf(state', lastOp'.player)[lastOp'.index + 1].isRevealed
               /\ state.pendingAction.type # "Assassinate"
                    => /\ AliveCount(getPlayerById(state', lastOp'.player))
                            = AliveCount(getPlayerById(state, lastOp'.player)) - 1
                       /\ state'.phase # "GameOver"
                            => RoutedAfterFailedChallenge(state, state')]_vars

(* a challenger with one card left challenged a Steal of an actor who    *)
(* holds the Captain: the challenger is out and the block phase is open  *)
C25_Witness ==
    /\ lastOp.op = "challengeAction"
    /\ ~lastOp.threw
    /\ state.phase = "AwaitingBlock"
    /\ state.pendingAction.type = "Steal"
    /\ getPlayerById(state, lastOp.player).isEliminated
    /\ AliveCount(getPlayerById(state, state.pendingAction.sourcePlayerId)) = 2

(* the step settles the penalty of a challenger who lost the challenge of *)
(* the pending action: in the challengeAction call with one card left, in *)
(* the challenger's selectCardToLose otherwise                            *)
FailedChallengeSettled ==
    \/ /\ Accepted("challengeAction")
       /\ state.phase = "AwaitingChallengeOnAction"
       /\ lastOp'.player # state.pendingAction.sourcePlayerId
       /\ ActorHolds(state)
       /\ AliveCount(getPlayerById(state, lastOp'.player)) = 1
    \/ /\ Accepted("selectCardToLose")
       /\ FailedChallengePending(state, lastOp)
       /\ lastOp'.player = lastOp.player

(* the assassination took effect on a target who had n unrevealed cards *)
AssassinationResolved(s, t, n) ==
    LET tgt == s.pendingAction.targetPlayerId
    IN \/ t.phase = "GameOver"
       \/ /\ n = 0
          /\ TurnEnded(s, t)
       \/ /\ n = 1
          /\ TurnEnded(s, t)
          /\ getPlayerById(t, tgt).isEliminated
       \/ /\ n = 2
          /\ t.phase = "AwaitingCardSelection"
          /\ t.respondedPlayerIds = <<tgt>>
          /\ t.cardSelectionReason = "action-effect"
          /\ AliveCount(getPlayerById(t, tgt)) = 2

(* C26: after a failed challenge of an Assassinate the phase is never     *)
(* AwaitingBlock for that action, so no block is asked for: the step      *)
(* that settles the challenger's penalty (the challenge itself, or the    *)
(* challenger's selectCardToLose) resolves the assassination against the  *)
(* target.                                                                *)
C26_NoBlockAfterFailedChallenge ==
    [][/\ (state.pendingAction.type = "Assassinate" /\ FailedChallengeSettled)
            => LET tgt == state.pendingAction.targetPlayerId
                   left == AliveCount(getPlayerById(state, tgt))
                             - (IF lastOp'.player = tgt THEN 1 ELSE 0)
               IN /\ state'.phase # "AwaitingBlock"
                  /\ AssassinationResolved(state, state', left)
       /\ (state'.pendingAction.type = "Assassinate" /\ "challengeAction" \in turnOps')
            => state'.phase # "AwaitingBlock"]_vars

(* the challenger of a true Assassin chose the card to give up and the   *)
(* target, another player, is asked for a card at once                   *)
C26_Witness ==
    /\ lastOp.op = "selectCardToLose"
    /\ ~lastOp.threw
    /\ state.pendingAction.type = "Assassinate"
    /\ turnOps = {"declareAction", "challengeAction", "selectCardToLose"}
    /\ state.phase = "AwaitingCardSelection"
    /\ state.cardSelectionReason = "action-effect"
    /\ state.respondedPlayerIds = <<state.pendingAction.targetPlayerId>>
    /\ lastOp.player # state.pendingAction.targetPlayerId

(* the turn of state s passed to the next player in roster order who is *)
(* still in the game                                                     *)
PassedToNextAlive(s, t) ==
    LET n == Len(s.players)
        from == s.currentPlayerIndex
        to == t.currentPlayerIndex
        dist == ((to - from - 1) % n) + 1
    IN /\ TurnEnded(s, t)
       /\ ~t.players[to + 1].isEliminated
       /\ \A k \in 1..(dist - 1) : t.players[((from + k) % n) + 1].isEliminated

(* nothing of the pending action happened between s and t: every coin    *)
(* stays where it was, nobody but the player named lost or changed a     *)
(* card, the deck is the same and no block or later phase of the action  *)
(* is open                                                               *)
NoEffectBut(s, t, id) ==
    /\ \A q \in RosterIds(s) : CoinsOf(t, q) = CoinsOf(s, q)
    /\ \A q \in RosterIds(s) \ {id} : CardsOf(t, q) = CardsOf(s, q)
    /\ t.courtDeck = s.courtDeck
    /\ t.drawnCards = <<>>
    /\ t.phase \in {"AwaitingAction", "AwaitingCardSelection", "GameOver"}

(* an actor with two cards was caught bluffing and has to select one *)
CaughtActorPending(s, last) ==
    /\ last.op = "challengeAction"
    /\ ~last.threw
    /\ s.phase = "AwaitingCardSelection"
    /\ s.cardSelectionReason = "challenge-penalty"
    /\ s.respondedPlayerIds = <<s.pendingAction.sourcePlayerId>>

(* C27: when challengeAction meets an actor who holds no unrevealed card  *)
(* of the claimed character, the actor loses exactly one influence (in    *)
(* the call with one card left, through AwaitingCardSelection with       *)
(* reason challenge-penalty otherwise), the action has no effect (no     *)
(* coin moves, nobody else loses or changes a card, no block phase       *)
(* opens) and, the loss resolved, the turn passes to the next player     *)
(* still in the game unless the loss ended the game.                     *)
C27_SuccessfulChallenge ==
    [][/\ (/\ Accepted("challengeAction")
           /\ state.phase = "AwaitingChallengeOnAction"
           /\ HasPlayer(state, state.pendingAction.sourcePlayerId)
           /\ ~ActorHolds(state))
            => LET a == state.pendingAction
                   actor == a.sourcePlayerId
               IN /\ NoEffectBut(state, state', actor)
                  /\ IF AliveCount(getPlayerById(state, actor)) = 1
                     THEN /\ AliveCount(getPlayerById(state', actor)) = 0
                          /\ state'.phase # "GameOver" => PassedToNextAlive(state, state')
                     ELSE /\ state'.phase = "AwaitingCardSelection"
                          /\ state'.respondedPlayerIds = <<actor>>
                          /\ state'.cardSelectionReason = "challenge-penalty"
                          /\ CardsOf(state', actor) = CardsOf(state, actor)
                          /\ state'.pendingAction = a
       /\ (/\ Accepted("selectCardToLose")
           /\ CaughtActorPending(state, lastOp)
           /\ lastOp'.player = state.pendingAction.sourcePlayerId)
            => LET actor == state.pendingAction.sourcePlayerId
               IN /\ NoEffectBut(state, state', actor)
                  /\ AliveCount(getPlayerById(state', actor))
                        = AliveCount(getPlayerById(state, actor)) - 1
                  /\ CardsOf(state', actor)[lastOp'.index + 1].isRevealed
                  /\ state'.phase # "GameOver" => PassedToNextAlive(state, state')]_vars

(* an actor with one card left was caught bluffing in a game of three:   *)
(* the actor is out, nobody gained a coin and the next player is to act  *)
C27_Witness ==
    /\ lastOp.op = "challengeAction"
    /\ ~lastOp.threw
    /\ turnOps = {"declareAction", "challengeAction"}
    /\ state.phase = "AwaitingAction"
    /\ state.turnNumber = firstTurn + 1
    /\ Len(state.players) = 3
    /\ state.players[1].isEliminated
    /\ state.currentPlayerIndex = 1

(* the actor, with two cards, challenged a block that was true and has to *)
(* select a card                                                          *)
UpheldBlockPending(s, last) ==
    /\ last.op = "challengeBlock"
    /\ ~last.threw
    /\ last.player = s.pendingAction.sourcePlayerId
    /\ s.phase = "AwaitingCardSelection"
    /\ s.respondedPlayerIds = <<last.player>>
    /\ s.pendingBlock.blockingPlayerId # last.player

(* C28: when the actor's challengeBlock meets a blocker who holds the     *)
(* claimed blocking character, that card goes back to the deck and a      *)
(* drawn card takes its place, the actor loses exactly one influence (in  *)
(* the call with one card left, through AwaitingCardSelection otherwise), *)
(* the blocked action never takes effect (no coin moves, the target and   *)
(* every other player keep their cards) and, the loss resolved, the turn  *)
(* advances unless the loss ended the game.                               *)
C28_BlockUpheld ==
    [][/\ (/\ Accepted("challengeBlock")
           /\ state.phase = "AwaitingChallengeOnBlock"
           /\ lastOp'.player = state.pendingAction.sourcePlayerId
           /\ lastOp'.player # state.pendingBlock.blockingPlayerId
           /\ BlockerHolds(state))
            => LET actor == state.pendingAction.sourcePlayerId
                   b == state.pendingBlock
               IN /\ CardReplaced(CardsOf(state, b.blockingPlayerId),
                                  CardsOf(state', b.blockingPlayerId),
                                  b.claimedCharacter, state.courtDeck, state'.courtDeck)
                  /\ \A q \in RosterIds(state) : CoinsOf(state', q) = CoinsOf(state, q)
                  /\ \A q \in RosterIds(state) \ {actor, b.blockingPlayerId} :
                        CardsOf(state', q) = CardsOf(state, q)
                  /\ IF AliveCount(getPlayerById(state, actor)) = 1
                     THEN /\ AliveCount(getPlayerById(state', actor)) = 0
                          /\ state'.phase # "GameOver" => PassedToNextAlive(state, state')
                     ELSE /\ state'.phase = "AwaitingCardSelection"
                          /\ state'.respondedPlayerIds = <<actor>>
                          /\ CardsOf(state', actor) = CardsOf(state, actor)
                          /\ state'.pendingAction = state.pendingAction
       /\ (/\ Accepted("selectCardToLose")
           /\ UpheldBlockPending(state, lastOp)
           /\ lastOp'.player = lastOp.player)
            => LET actor == state.pendingAction.sourcePlayerId
               IN /\ NoEffectBut(state, state', actor)
                  /\ AliveCount(getPlayerById(state', actor))
                        = AliveCount(getPlayerById(state, actor)) - 1
                  /\ CardsOf(state', actor)[lastOp'.index + 1].isRevealed
                  /\ state'.phase # "GameOver" => PassedToNextAlive(state, state')]_vars

(* the actor challenged a block that was true and gave up a card, the   *)
(* other players hold both of theirs: the turn is over                   *)
C28_Witness ==
    /\ lastOp.op = "selectCardToLose"
    /\ ~lastOp.threw
    /\ "challengeBlock" \in turnOps
    /\ "declareBlock" \in turnOps
    /\ "challengeAction" \notin turnOps
    /\ state.phase = "AwaitingAction"
    /\ state.turnNumber = firstTurn + 1
    /\ lastOp.player = PlayerIds[1]
    /\ AliveCount(getPlayerById(state, lastOp.player)) = 1
    /\ \A i \in 1..Len(state.players) : i # 1 => AliveCount(state.players[i]) = 2

(* the alive players who may still challenge the pending block: all but  *)
(* the blocker                                                            *)
BlockChallengers(s) == AliveIds(s) \ {s.pendingBlock.blockingPlayerId}

(* C29: in AwaitingChallengeOnBlock, the pass after which every alive     *)
(* player other than the blocker has passed lets the block stand: the     *)
(* turn advances to AwaitingAction, the blocked action's effect is not    *)
(* applied and nobody loses influence or coins; a pass that leaves one of *)
(* them still to answer keeps the phase AwaitingChallengeOnBlock.         *)
C29_BlockStandsWhenAllPassed ==
    [][(/\ Accepted("passChallenge")
        /\ state.phase = "AwaitingChallengeOnBlock"
        /\ HasPlayer(state, state.pendingBlock.blockingPlayerId))
         => LET passed == Range(state.respondedPlayerIds) \cup {lastOp'.player}
            IN IF BlockChallengers(state) \subseteq passed
               THEN /\ TurnEnded(state, state')
                    /\ state'.players = state.players
                    /\ state'.courtDeck = state.courtDeck
               ELSE /\ state'.phase = "AwaitingChallengeOnBlock"
                    /\ state'.players = state.players]_vars

(* every player's cards and coins are the same in s and t, the player    *)
(* named left aside                                                       *)
SameHandsBut(s, t, id) ==
    /\ \A q \in RosterIds(s) \ {id} : CardsOf(t, q) = CardsOf(s, q)
    /\ \A q \in RosterIds(s) : CoinsOf(t, q) = CoinsOf(s, q)

(* the tail of the chain, with two cards, accepted the Coup and has to   *)
(* select a card                                                          *)
AcceptedCoupPending(s, last) ==
    /\ last.op = "passCoupRedirect"
    /\ ~last.threw
    /\ s.phase = "AwaitingCardSelection"
    /\ s.respondedPlayerIds = <<last.player>>
    /\ s.pendingAction.type = "Coup"

(* C30: with the redirect character enabled a declared Coup opens         *)
(* AwaitingCoupRedirect and takes no card from anyone, and a redirect     *)
(* declared there takes none either; when the chain's tail accepts        *)
(* through passCoupRedirect exactly one influence goes, from that player  *)
(* and from no other (in the call with one card left, through            *)
(* AwaitingCardSelection otherwise), the chain and the remembered source  *)
(* are cleared, and the loss resolved the turn advances: the             *)
(* selectCardToLose of the tail does not apply the Coup again.            *)
C30_CoupRedirectAccepted ==
    [][/\ (/\ Accepted("declareAction")
           /\ lastOp'.type = "Coup"
           /\ state.phase = "AwaitingAction"
           /\ "Jester" \in state.config.enabledCharacters
           /\ HasPlayer(state, lastOp'.target)
           /\ ~getPlayerById(state, lastOp'.target).isEliminated)
            => /\ state'.phase = "AwaitingCoupRedirect"
               /\ state'.coupRedirectChain = <<lastOp'.target>>
               /\ \A q \in RosterIds(state) : CardsOf(state', q) = CardsOf(state, q)
       /\ (/\ Accepted("declareCoupRedirect")
           /\ state.phase = "AwaitingCoupRedirect")
            => \A q \in RosterIds(state) : CardsOf(state', q) = CardsOf(state, q)
       /\ (/\ Accepted("passCoupRedirect")
           /\ state.phase = "AwaitingCoupRedirect"
           /\ lastOp'.player = TailOf(state.coupRedirectChain))
            => LET tail == lastOp'.player
               IN /\ SameHandsBut(state, state', tail)
                  /\ state'.coupRedirectChain = <<>>
                  /\ state'.coupRedirectSourceId = Null
                  /\ IF AliveCount(getPlayerById(state, tail)) = 1
                     THEN /\ AliveCount(getPlayerById(state', tail)) = 0
                          /\ state'.phase # "GameOver" => PassedToNextAlive(state, state')
                     ELSE /\ state'.phase = "AwaitingCardSelection"
                          /\ state'.respondedPlayerIds = <<tail>>
                          /\ state'.cardSelectionReason = "action-effect"
                          /\ CardsOf(state', tail) = CardsOf(state, tail)
       /\ (/\ Accepted("selectCardToLose")
           /\ AcceptedCoupPending(state, lastOp)
           /\ lastOp'.player = lastOp.player)
            => LET tail == lastOp'.player
               IN /\ SameHandsBut(state, state', tail)
                  /\ AliveCount(getPlayerById(state', tail))
                        = AliveCount(getPlayerById(state, tail)) - 1
                  /\ CardsOf(state', tail)[lastOp'.index + 1].isRevealed
                  /\ state'.coupRedirectChain = <<>>
                  /\ state'.coupRedirectSourceId = Null
                  /\ state'.phase # "GameOver" => PassedToNextAlive(state, state')]_vars

(* the Coup was redirected once, the new tail accepted it and gave up    *)
(* one of two cards: the turn is over and everybody else holds two cards *)
C30_Witness ==
    /\ lastOp.op = "selectCardToLose"
    /\ ~lastOp.threw
    /\ {"declareCoupRedirect", "passCoupRedirect"} \subseteq turnOps
    /\ state.phase = "AwaitingAction"
    /\ state.turnNumber = firstTurn + 1
    /\ state.coupRedirectChain = <<>>
    /\ AliveCount(getPlayerById(state, lastOp.player)) = 1
    /\ \A q \in RosterIds(state) \ {lastOp.player} :
          AliveCount(getPlayerById(state, q)) = 2

(* the alive players who may still challenge the pending redirect: all   *)
(* but the redirector                                                     *)
RedirectChallengers(s) == AliveIds(s) \ {RedirectorOf(s.coupRedirectChain)}

(* C31: in AwaitingCoupRedirectChallenge the redirect stands only with    *)
(* the pass after which every alive player other than the redirector has  *)
(* passed: the phase becomes AwaitingCoupRedirect, the chain's last entry *)
(* is the live target and nobody lost a card or a coin; a pass that       *)
(* leaves one of them still to answer keeps the phase                     *)
(* AwaitingCoupRedirectChallenge.                                         *)
C31_RedirectStandsWhenAllPassed ==
    [][(/\ Accepted("passCoupRedirectChallenge")
        /\ state.phase = "AwaitingCoupRedirectChallenge"
        /\ Len(state.coupRedirectChain) >= 2)
         => LET passed == Range(state.respondedPlayerIds) \cup {lastOp'.player}
            IN IF RedirectChallengers(state) \subseteq passed
               THEN /\ state'.phase = "AwaitingCoupRedirect"
                    /\ state'.coupRedirectChain = state.coupRedirectChain
                    /\ state'.pendingAction.targetPlayerId = TailOf(state.coupRedirectChain)
                    /\ state'.players = state.players
               ELSE /\ state'.phase = "AwaitingCoupRedirectChallenge"
                    /\ state'.players = state.players]_vars

(* C32: when a challenge to a redirect fails with occurrence count k,     *)
(* every run of the replace loop returns k distinct Jester cards of the   *)
(* redirector to the deck and replaces each by a drawn card (for k = 2    *)
(* both cards, never the same slot twice), and the redirector holds as    *)
(* many unrevealed cards as before.                                       *)
C32_DistinctJestersReplaced ==
    [][(/\ Accepted("challengeCoupRedirect")
        /\ RedirectChallengeFails(state)
        /\ lastOp'.player # RedirectorOf(state.coupRedirectChain))
         => LET r == RedirectorOf(state.coupRedirectChain)
                k == redirectorOccurrences(state.coupRedirectChain)
            IN /\ \A slots \in ReplacedSlots(state, r, k) :
                     /\ Len(slots) = k
                     /\ Cardinality(Range(slots)) = k
               /\ AliveCount(getPlayerById(state', r))
                     = AliveCount(getPlayerById(state, r))]_vars

RedirectPhases == {"AwaitingCoupRedirect", "AwaitingCoupRedirectChallenge"}

(* the pending Coup of s is the one player d declared, aimed at the last *)
(* entry of the chain                                                     *)
CoupPinnedTo(s, d) ==
    /\ s.pendingAction.type = "Coup"
    /\ s.pendingAction.sourcePlayerId = d
    /\ s.coupRedirectSourceId = d
    /\ s.coupRedirectChain # <<>>
    /\ s.pendingAction.targetPlayerId = TailOf(s.coupRedirectChain)
    /\ Len(s.coupRedirectChain) >= 2 => s.pendingAction.claimedCharacter = "Jester"

(* C33: across the redirect hops of one Coup pendingAction.sourcePlayerId *)
(* and coupRedirectSourceId stay the player who declared the Coup,        *)
(* pendingAction.targetPlayerId is the last entry of coupRedirectChain,   *)
(* claimedCharacter is Jester once a redirect was declared, and the       *)
(* declarer pays the Coup cost once: at the declaration, and no coin      *)
(* moves in any hop.                                                      *)
C33_SourcePinnedAcrossHops ==
    [][/\ (/\ Accepted("declareAction")
           /\ lastOp'.type = "Coup"
           /\ state.phase = "AwaitingAction"
           /\ state'.phase = "AwaitingCoupRedirect")
            => /\ CoupPinnedTo(state', lastOp'.player)
               /\ CoinsOf(state', lastOp'.player) = CoinsOf(state, lastOp'.player) - COUP_COST
       /\ (/\ Accepted("declareCoupRedirect")
           /\ state.phase = "AwaitingCoupRedirect"
           /\ CoupPinnedTo(state, state.coupRedirectSourceId))
            => /\ CoupPinnedTo(state', state.coupRedirectSourceId)
               /\ state'.coupRedirectChain = Append(state.coupRedirectChain, lastOp'.target)
               /\ state'.pendingAction.claimedCharacter = "Jester"
               /\ \A q \in RosterIds(state) : CoinsOf(state', q) = CoinsOf(state, q)
       /\ (/\ ~lastOp'.threw
           /\ lastOp'.op \in {"passCoupRedirectChallenge", "challengeCoupRedirect",
                              "selectCardToLose"}
           /\ state.phase \in RedirectPhases \cup {"AwaitingCardSelection"}
           /\ state'.phase \in RedirectPhases
           /\ CoupPinnedTo(state, state.coupRedirectSourceId))
            => /\ CoupPinnedTo(state', state.coupRedirectSourceId)
               /\ state'.coupRedirectChain = state.coupRedirectChain
               /\ \A q \in RosterIds(state) : CoinsOf(state', q) = CoinsOf(state, q)]_vars

(* a Coup redirected twice stands against its third target: the source   *)
(* is still the player to act, seven coins poorer                        *)
C33_Witness ==
    /\ state.phase = "AwaitingCoupRedirect"
    /\ Len(state.coupRedirectChain) = 3
    /\ lastOp.op = "passCoupRedirectChallenge"
    /\ CoupPinnedTo(state, state.players[state.currentPlayerIndex + 1].id)
    /\ state.coupRedirectChain[2] = state.pendingAction.sourcePlayerId

(* the fields advanceTurn clears *)
TransientsEmpty(s) ==
    /\ s.pendingAction = NoAction
    /\ s.pendingBlock = NoBlock
    /\ s.respondedPlayerIds = <<>>
    /\ s.drawnCards = <<>>
    /\ s.coupRedirectChain = <<>>
    /\ s.coupRedirectSourceId = Null
    /\ s.cardSelectionReason = Undefined

(* C34: in every reachable AwaitingAction state the current player is     *)
(* not eliminated and pendingAction, pendingBlock, respondedPlayerIds,    *)
(* drawnCards, the redirect chain and source and the card-selection       *)
(* reason are empty, advanceTurn having set the phase, cleared them,      *)
(* raised turnNumber by one and moved currentPlayerIndex to the next      *)
(* player still in the game.                                              *)
C34_AwaitingActionClean ==
    state.phase = "AwaitingAction"
        => /\ ~state.players[state.currentPlayerIndex + 1].isEliminated
           /\ TransientsEmpty(state)

(* the step resolves the pending action: the last pass of the challenge  *)
(* phase, or the settling of a failed challenge's penalty                *)
ResolvedUnblocked ==
    \/ /\ Accepted("passChallenge")
       /\ state.phase = "AwaitingChallengeOnAction"
       /\ state'.phase # "AwaitingChallengeOnAction"
    \/ FailedChallengeSettled /\ state'.phase # "GameOver"

(* C35: when an Exchange resolves, unchallenged or after a failed         *)
(* challenge, the turn does not advance: the phase becomes                *)
(* AwaitingExchangeSelection, the turn is still the actor's and the       *)
(* engine waits for completeExchange.                                     *)
C35_ExchangeAwaitsSelection ==
    [][(state.pendingAction.type = "Exchange" /\ ResolvedUnblocked)
         => /\ state'.phase = "AwaitingExchangeSelection"
            /\ state'.turnNumber = state.turnNumber
            /\ state'.currentPlayerIndex = state.currentPlayerIndex]_vars

(* action type t is offered to a player with that many coins *)
Offered(s, t, coins) ==
    CASE t \in {"Income", "ForeignAid"} -> TRUE
      [] t = "Coup" -> coins >= 7
      [] OTHER -> \E c \in s.config.enabledCharacters :
                     /\ CharacterAction(c) = t
                     /\ coins >= (IF t = "Assassinate" THEN 3 ELSE 0)

(* C36: getAvailableActions returns exactly [Coup] when the current       *)
(* player holds 10 coins or more; otherwise it returns Income,            *)
(* ForeignAid, Coup exactly when coins >= 7 and each enabled character's  *)
(* action exactly when the coins cover its cost (Assassinate from 3       *)
(* coins), every type once.                                               *)
C36_AvailableActions ==
    state.phase = "AwaitingAction"
        => LET coins == state.players[state.currentPlayerIndex + 1].coins
               actions == availableActionList(state)
           IN /\ Range(actions) = getAvailableActions(state)
              /\ IF coins >= 10 THEN actions = <<"Coup">>
                 ELSE /\ Len(actions) = Cardinality(Range(actions))
                      /\ \A t \in ActionType : t \in Range(actions) <=> Offered(state, t, coins)

(* a player with 2 coins in a game with the Assassin is to act, and is   *)
(* offered neither Coup nor Assassinate                                  *)
C36_Witness ==
    /\ state.phase = "AwaitingAction"
    /\ state.players[state.currentPlayerIndex + 1].coins = 2
    /\ "Assassin" \in state.config.enabledCharacters
    /\ lastOp.op = "declareAction"
    /\ getAvailableActions(state) \cap {"Coup", "Assassinate"} = {}
    /\ "Examine" \in getAvailableActions(state)

(* the number of cards dealt to each player at game creation *)
CardsDealt == 2

(* how many revealed cards of character c player number i shows *)
RevealedCount(s, i, c) ==
    Cardinality({j \in 1..Len(s.players[i].influenceCards) :
                    /\ s.players[i].influenceCards[j].isRevealed
                    /\ s.players[i].influenceCards[j].character = c})

(* the characters player number i shows face up *)
RevealedFaces(s, i) ==
    {s.players[i].influenceCards[j].character :
        j \in {k \in 1..Len(s.players[i].influenceCards) :
                  s.players[i].influenceCards[k].isRevealed}}

(* C37: in every reachable state each player's influenceCards has the    *)
(* length dealt at game creation, and revealing is irreversible: for      *)
(* each player and character the number of revealed cards never goes      *)
(* down, so no step turns a revealed card face down or changes it.        *)
C37_CardsPersist ==
    [][\A i \in 1..Len(state.players) :
          /\ Len(state.players[i].influenceCards) = CardsDealt
          /\ Len(state'.players[i].influenceCards) = CardsDealt
          /\ \/ state'.players[i].influenceCards = state.players[i].influenceCards
             \/ \A c \in RevealedFaces(state, i) :
                   RevealedCount(state', i, c) >= RevealedCount(state, i, c)]_vars

(* a player who shows one revealed card completed an exchange and still  *)
(* holds two cards, the revealed one among them                          *)
C37_Witness ==
    /\ lastOp.op = "completeExchange"
    /\ ~lastOp.threw
    /\ HasPlayer(state, lastOp.player)
    /\ Len(CardsOf(state, lastOp.player)) = CardsDealt
    /\ AliveCount(getPlayerById(state, lastOp.player)) = 1
    /\ CardsOf(state, lastOp.player)[2].isRevealed

(* the relay takes message m off the wire in this step *)
Received(m) ==
    /\ Len(inFlight') < Len(inFlight)
    /\ m \in Range(inFlight)
    /\ lastOp' = m.args
    /\ state' = m.newState

(* the controls of m's sender, on the state the relay holds, that make   *)
(* the call m carries                                                     *)
SameClickNow(m) ==
    {c \in OfferedClicks(filterStateForPlayer(state, m.from), m.from) : c.args = m.args}

(* C38: the relay serializes the transitions of a match: the state it    *)
(* stores for a game_action is a successor, by the sender's call, of the *)
(* state it held when the message arrived (or that state itself when the *)
(* call is no longer open to the sender), so when two clients computed   *)
(* their transitions from the same state the stored state reflects both  *)
(* and no accepted response is lost.                                     *)
C38_RelaySerializes ==
    [][\A m \in Range(inFlight) :
          Received(m)
            => IF SameClickNow(m) = {} THEN state' = state
               ELSE \E c \in SameClickNow(m) : state' \in c.outcomes]_vars

(* C39: the phases AwaitingTargetSelection and ResolvingAction are dead:  *)
(* no sequence of engine calls from createGame reaches a state in either  *)
(* of them.                                                               *)
C39_DeadPhases ==
    state.phase \notin {"AwaitingTargetSelection", "ResolvingAction"}

(* a Coup with its target was declared and resolved in the one call: the *)
(* target is asked for a card, no phase for choosing the target or for   *)
(* resolving came between                                                *)
C39_Witness ==
    /\ lastOp.op = "declareAction"
    /\ ~lastOp.threw
    /\ lastOp.type = "Coup"
    /\ turnOps = {"declareAction"}
    /\ state.phase = "AwaitingCardSelection"
    /\ state.respondedPlayerIds = <<lastOp.target>>
    /\ state.pendingAction.targetPlayerId = lastOp.target

(* some player is shown a control in state s whose engine call is accepted *)
SomeMoveOpen(s) ==
    \E v \in RosterIds(s) : \E c \in OfferedClicks(s, v) : c.outcomes # {}

(* the one player asked for a card can give one *)
SelectionPossible(s) ==
    /\ Len(s.respondedPlayerIds) = 1
    /\ HasPlayer(s, s.respondedPlayerIds[1])
    /\ ~getPlayerById(s, s.respondedPlayerIds[1]).isEliminated
    /\ AliveCount(getPlayerById(s, s.respondedPlayerIds[1])) >= 1

C40_Witness ==
    /\ lastOp.op \in {"challengeAction", "challengeCoupRedirect"}
    /\ state.phase = "AwaitingCardSelection"
    /\ state.cardSelectionReason = "challenge-penalty"
    /\ SelectionPossible(state)
    /\ SomeMoveOpen(state)

(* C40: no stuck state in a match played by eligible players in the      *)
(* matching phase: in every reachable state whose phase is not GameOver  *)
(* some player has a move the engine accepts, and in every reachable     *)
(* AwaitingCardSelection state respondedPlayerIds names exactly one      *)
(* player, who is not eliminated and holds an unrevealed card.           *)
C40_NoStuckState ==
    /\ state.phase # "GameOver" => SomeMoveOpen(state)
    /\ state.phase = "AwaitingCardSelection" => SelectionPossible(state)

====
